---------------------------- MODULE Spec2Model ----------------------------
(***************************************************************************)
(* A model of the ingestion side of the RAG chatbot: the content fetcher   *)
(* (scraper.py), the content cleaner (cleaner.py), the text chunker        *)
(* (chunker.py) and the ingestion pipeline (scripts/ingest_data.py).       *)
(*                                                                         *)
(* Text is a sequence of one-character strings.  An HTML document is the  *)
(* tree its parser builds, written as the sequence of its nodes in         *)
(* document order, each node naming its parent (0: the top of the          *)
(* document); the empty sequence is the empty string.                      *)
(***************************************************************************)
EXTENDS Integers, Sequences, FiniteSets, TLC

VARIABLES
    \* HTMLCleaner._clean_html_content on one document
    html_content, main_content, cleaned_text, recleaned_text, clean_pc,
    \* HTMLCleaner.clean_scraped_data on a batch
    batch_in, cleaned_results, clean_raised, batch_pc,
    \* TextChunker.chunk_text on one text
    chunk_size, chunk_overlap, text_content, metadata, documents, spans,
    chunk_raised, chunk_pc,
    \* ingest_data_pipeline and the fetches of Webscraper.scrape_all
    pc, tasks, completion_order, scraped_results_list, next_item, failed_items,
    all_documents_for_db, raised, handled_by, db_index, index_records, close_calls,
    \* the urls argument of ingest_data_pipeline and the urls of its Webscraper
    urls_argument, scraper_urls,
    \* TextChunker.chunk_cleaned_data on a batch
    cleaned_data, splitter_failures, all_chunks, chunk_batch_raised, chunk_batch_pc,
    \* VectorDBClient objects, and the vector store service they talk to
    clients, remote_indexes, remote_records,
    \* the loading of config.py
    environ, config_raised, config_pc,
    \* a RAGChain object and the outcome of the latest call on it
    rag, generated,
    \* api_server.py: the global rag_system, the startup event, the chat
    \* requests in flight and the latest answer of /health
    rag_system, startup, requests, health

cleanVars == <<html_content, main_content, cleaned_text, recleaned_text, clean_pc>>
batchVars == <<batch_in, cleaned_results, clean_raised, batch_pc>>
chunkVars == <<chunk_size, chunk_overlap, text_content, metadata, documents, spans,
               chunk_raised, chunk_pc>>
fetchVars == <<tasks, completion_order>>
runVars == <<pc, scraped_results_list, next_item, failed_items, all_documents_for_db,
             raised, handled_by, db_index, index_records, close_calls>>
argVars == <<urls_argument, scraper_urls>>
pipelineVars == <<fetchVars, runVars, argVars>>
chunkBatchVars == <<cleaned_data, splitter_failures, all_chunks, chunk_batch_raised,
                    chunk_batch_pc>>
dbVars == <<clients, remote_indexes, remote_records>>
configVars == <<environ, config_raised, config_pc>>
ragVars == <<rag, generated>>
apiVars == <<rag_system, startup, requests, health>>
serviceVars == <<chunkBatchVars, dbVars, configVars, ragVars, apiVars>>
vars == <<cleanVars, batchVars, chunkVars, pipelineVars, serviceVars>>

(***************************************************************************)
(* Bounds of the model.                                                    *)
(***************************************************************************)
MaxNodes == 3
MaxPages == 2
MaxTextLen == 5
MaxChunkSize == 3
MaxRecords == 4
MaxTopK == 3
MaxCalls == 3
MaxRequests == 2
\* the chunker's configuration in the pipeline (Config.CHUNK_SIZE and
\* Config.CHUNK_OVERLAP, scaled down to the model's texts)
CHUNK_SIZE == 3
CHUNK_OVERLAP == 1

(***************************************************************************)
(* Text.                                                                   *)
(***************************************************************************)
Whitespace == {" ", "\n"}

RECURSIVE LStrip(_)
LStrip(s) ==
    IF s = <<>> THEN s
    ELSE IF Head(s) \in Whitespace THEN LStrip(Tail(s)) ELSE s

RECURSIVE RStrip(_)
RStrip(s) ==
    IF s = <<>> THEN s
    ELSE IF s[Len(s)] \in Whitespace THEN RStrip(SubSeq(s, 1, Len(s) - 1)) ELSE s

\* str.strip()
Strip(s) == RStrip(LStrip(s))

\* whitespace_pattern.sub(' ', text): every run of whitespace becomes one space
RECURSIVE SubWhitespace(_)
SubWhitespace(s) ==
    IF s = <<>> THEN <<>>
    ELSE IF Head(s) \in Whitespace THEN <<" ">> \o SubWhitespace(LStrip(s))
    ELSE <<Head(s)>> \o SubWhitespace(Tail(s))

\* ' '.join(strings)
RECURSIVE JoinSpace(_)
JoinSpace(strings) ==
    IF strings = <<>> THEN <<>>
    ELSE IF Len(strings) = 1 THEN strings[1]
    ELSE strings[1] \o <<" ">> \o JoinSpace(Tail(strings))

(***************************************************************************)
(* The exception classes of utils/exceptions.py and their subclass order.  *)
(***************************************************************************)
NoException == "none"

Superclass(cls) ==
    CASE cls = "ScrapingException" -> "DataProcessingException"
      [] cls = "CleaningException" -> "DataProcessingException"
      [] cls = "ChunkingException" -> "DataProcessingException"
      [] cls = "DataProcessingException" -> "BaseChatbotException"
      [] cls = "EmbeddingException" -> "BaseChatbotException"
      [] cls = "VectorDBException" -> "BaseChatbotException"
      [] cls = "GenerationException" -> "BaseChatbotException"
      [] cls = "BaseChatbotException" -> "Exception"
      [] OTHER -> "Exception"

\* isinstance(exc, cls): what an except clause tests
RECURSIVE IsInstance(_, _)
IsInstance(exc, cls) ==
    IF exc = NoException THEN FALSE
    ELSE IF exc = cls THEN TRUE
    ELSE IF exc = "Exception" THEN FALSE
    ELSE IsInstance(Superclass(exc), cls)

(***************************************************************************)
(* HTML documents as parsed by BeautifulSoup(html_content, "html.parser"). *)
(***************************************************************************)
TagNode(tag, id, parent) ==
    [kind |-> "tag", tag |-> tag, id |-> id, text |-> <<>>, parent |-> parent]
TextNode(text, parent) ==
    [kind |-> "text", tag |-> "", id |-> "", text |-> text, parent |-> parent]
CommentNode(text, parent) ==
    [kind |-> "comment", tag |-> "", id |-> "", text |-> text, parent |-> parent]

\* The node shapes the model draws documents from (parent filled in later).
NodeShapes ==
    {TagNode(t, "", 0) : t \in {"main", "article", "div", "body", "nav"}}
    \cup {TagNode("div", "content", 0)}
    \cup {TextNode(t, 0) : t \in {<<"a">>, <<" ", "b", "\n", " ", "c", " ">>, <<" ">>}}
    \cup {CommentNode(<<"x">>, 0)}

\* The open elements after node Len(doc): the last node's element ancestors
\* (and itself when it is an element); a new node's parent is one of them or 0.
RECURSIVE OpenElements(_, _)
OpenElements(doc, i) ==
    IF i = 0 THEN {0}
    ELSE IF doc[i].parent >= i THEN {}
    ELSE (IF doc[i].kind = "tag" THEN {i} ELSE {}) \cup OpenElements(doc, doc[i].parent)

\* A document is well formed when every node's parent is an element still open
\* where the node starts (document order is the order of the start tags).
WellFormed(doc) ==
    \A i \in 1 .. Len(doc) : doc[i].parent \in OpenElements(doc, i - 1)

\* i lies in the subtree of r (r itself included)
RECURSIVE InSubtree(_, _, _)
InSubtree(doc, i, r) ==
    IF i = r THEN TRUE
    ELSE IF i = 0 THEN FALSE
    ELSE InSubtree(doc, doc[i].parent, r)

(***************************************************************************)
(* HTMLCleaner (cleaner.py).                                               *)
(***************************************************************************)
unwanted_tags ==
    {"script", "style", "noscript", "header", "footer", "nav", "form",
     "button", "input", "select", "textarea", "iframe", "svg", "canvas",
     "img", "link", "meta"}

\* Lines 30-35: the nodes left after every comment is extracted and every
\* element with an unwanted tag is decomposed (with all it contains).
Remaining(doc) ==
    {i \in 1 .. Len(doc) :
        /\ doc[i].kind # "comment"
        /\ ~ \E r \in 1 .. Len(doc) :
                /\ doc[r].kind = "tag"
                /\ doc[r].tag \in unwanted_tags
                /\ InSubtree(doc, i, r)}

Min(S) == CHOOSE x \in S : \A y \in S : x <= y

\* a slip that would try the article before the main
SelectArticleFirst(doc, alive) ==
    LET hit(tag) == {i \in alive : doc[i].kind = "tag" /\ doc[i].tag = tag}
        byId == {i \in alive : doc[i].kind = "tag" /\ doc[i].id = "content"}
    IN  IF hit("article") # {} THEN Min(hit("article"))
        ELSE IF hit("main") # {} THEN Min(hit("main"))
        ELSE IF byId # {} THEN Min(byId)
        ELSE IF hit("body") # {} THEN Min(hit("body")) ELSE 0

\* soup.find(tag): the first element of that name in document order, or 0 (None)
FindTag(doc, alive, tag) ==
    LET hits == {i \in alive : doc[i].kind = "tag" /\ doc[i].tag = tag}
    IN  IF hits = {} THEN 0 ELSE Min(hits)

\* soup.find(id=...): the first element with that id, or 0 (None)
FindId(doc, alive, id) ==
    LET hits == {i \in alive : doc[i].kind = "tag" /\ doc[i].id = id}
    IN  IF hits = {} THEN 0 ELSE Min(hits)

\* Lines 37-43: main, else article, else id 'content', else body; 0 when none.
\* (A Tag is truthy even when it is empty, so the first hit is final.)
SelectMainContent(doc, alive) ==
    IF FindTag(doc, alive, "main") # 0 THEN FindTag(doc, alive, "main")
    ELSE IF FindTag(doc, alive, "article") # 0 THEN FindTag(doc, alive, "article")
    ELSE IF FindId(doc, alive, "content") # 0 THEN FindId(doc, alive, "content")
    ELSE FindTag(doc, alive, "body")

\* The strings get_text(separator=' ', strip=True) joins: the text nodes under
\* the region in document order, each stripped, the empty ones left out.
ExtractedNodes(doc, alive, region) ==
    {i \in alive : /\ doc[i].kind = "text"
                   /\ InSubtree(doc, i, region)
                   /\ Strip(doc[i].text) # <<>>}

RECURSIVE StringsOf(_, _, _)
StringsOf(doc, nodes, i) ==
    IF i > Len(doc) THEN <<>>
    ELSE (IF i \in nodes THEN <<Strip(doc[i].text)>> ELSE <<>>)
            \o StringsOf(doc, nodes, i + 1)

GetText(doc, alive, region) ==
    JoinSpace(StringsOf(doc, ExtractedNodes(doc, alive, region), 1))

\* The region _clean_html_content settles on (0: none, it returns "")
MainContentOf(doc) == SelectMainContent(doc, Remaining(doc))

\* HTMLCleaner._clean_html_content
CleanHtmlContent(doc) ==
    IF doc = <<>> THEN <<>>
    ELSE IF MainContentOf(doc) = 0 THEN <<>>
    ELSE Strip(SubWhitespace(GetText(doc, Remaining(doc), MainContentOf(doc))))

\* A plain text handed to the parser: html.parser wraps nothing around it, so
\* the document is the one string at its top (no html, no body element).
ParseText(text) ==
    IF text = <<>> THEN <<>> ELSE <<TextNode(text, 0)>>

\* An input on which the parser itself raises (line 73 catches it).
Unparseable ==
    <<[kind |-> "unparseable", tag |-> "", id |-> "", text |-> <<>>, parent |-> 0]>>

ParserRaises(doc) == \E i \in 1 .. Len(doc) : doc[i].kind = "unparseable"

\* The pages the batch and pipeline specifications draw from.
PageMain ==      \* <body><main>a</main> b\n c </body>
    <<TagNode("body", "", 0), TagNode("main", "", 1), TextNode(<<"a">>, 2),
      TextNode(<<" ", "b", "\n", " ", "c", " ">>, 1)>>
PageBody ==      \* <body> b\n c <nav>a</nav></body>
    <<TagNode("body", "", 0), TextNode(<<" ", "b", "\n", " ", "c", " ">>, 1),
      TagNode("nav", "", 1), TextNode(<<"a">>, 3)>>
PageBlank ==     \* <body> </body>
    <<TagNode("body", "", 0), TextNode(<<" ">>, 1)>>
PageNoRegion ==  \* <div>a</div>
    <<TagNode("div", "", 0), TextNode(<<"a">>, 1)>>
EmptyHtml == <<>>

SamplePages == {PageMain, PageBody, PageBlank, PageNoRegion, EmptyHtml, Unparseable}

\* clean_scraped_data, lines 59-74: the loop over the items
RECURSIVE CleanedResults(_)
CleanedResults(scraped_data) ==
    IF scraped_data = <<>> THEN <<>>
    ELSE LET item == Head(scraped_data)
             kept ==
                IF item.url = "" \/ item.content = <<>> THEN <<>>
                ELSE IF ParserRaises(item.content) THEN <<>>
                ELSE IF CleanHtmlContent(item.content) # <<>>
                     THEN <<[url |-> item.url,
                             cleaned_text |-> CleanHtmlContent(item.content)]>>
                ELSE <<>>
         IN  kept \o CleanedResults(Tail(scraped_data))

\* the class clean_scraped_data raises when nothing was cleaned (line 77)
CleaningFailureClass == "DataProcessingException"

\* clean_scraped_data: what it returns and what it raises
CleanScrapedData(scraped_data) ==
    IF scraped_data = <<>>
    THEN [returned |-> <<>>, raised |-> NoException]
    ELSE IF CleanedResults(scraped_data) = <<>>
    THEN [returned |-> <<>>, raised |-> CleaningFailureClass]
    ELSE [returned |-> CleanedResults(scraped_data), raised |-> NoException]

(***************************************************************************)
(* TextChunker (chunker.py): RecursiveCharacterTextSplitter with           *)
(* length_function=len, is_separator_regex=False and the defaults          *)
(* separators ["\n\n", "\n", " ", ""], keep_separator=True,                *)
(* strip_whitespace=True.  A piece of the text is the sequence of the      *)
(* positions of its characters in the text, so that two chunks holding     *)
(* equal characters from different places stay apart.                      *)
(***************************************************************************)
Separators == <<(<<"\n", "\n">>), (<<"\n">>), (<<" ">>), (<<>>)>>

CharsOf(text, piece) == [k \in 1 .. Len(piece) |-> text[piece[k]]]

\* the separator stands in the piece at index i
MatchAt(text, piece, sep, i) ==
    /\ i + Len(sep) - 1 <= Len(piece)
    /\ \A k \in 1 .. Len(sep) : text[piece[i + k - 1]] = sep[k]

\* re.search(separator, text)
Contains(text, piece, sep) == \E i \in 1 .. Len(piece) : MatchAt(text, piece, sep, i)

\* _split_text_with_regex with keep_separator=True: each separator opens the
\* piece that follows it; empty pieces are left out.
RECURSIVE SplitKeep(_, _, _, _, _)
SplitKeep(text, piece, sep, cur, i) ==
    IF i > Len(piece) THEN (IF cur = <<>> THEN <<>> ELSE <<cur>>)
    ELSE IF MatchAt(text, piece, sep, i)
    THEN (IF cur = <<>> THEN <<>> ELSE <<cur>>)
            \o SplitKeep(text, piece, sep, SubSeq(piece, i, i + Len(sep) - 1), i + Len(sep))
    ELSE SplitKeep(text, piece, sep, Append(cur, piece[i]), i + 1)

SplitTextWithRegex(text, piece, sep) ==
    IF sep = <<>> THEN [k \in 1 .. Len(piece) |-> <<piece[k]>>]
    ELSE SplitKeep(text, piece, sep, <<>>, 1)

RECURSIVE Concat(_)
Concat(pieces) == IF pieces = <<>> THEN <<>> ELSE Head(pieces) \o Concat(Tail(pieces))

RECURSIVE LStripPiece(_, _)
LStripPiece(text, piece) ==
    IF piece = <<>> THEN piece
    ELSE IF text[Head(piece)] \in Whitespace THEN LStripPiece(text, Tail(piece)) ELSE piece

RECURSIVE RStripPiece(_, _)
RStripPiece(text, piece) ==
    IF piece = <<>> THEN piece
    ELSE IF text[piece[Len(piece)]] \in Whitespace
         THEN RStripPiece(text, SubSeq(piece, 1, Len(piece) - 1)) ELSE piece

\* _join_docs with separator "": the pieces joined and stripped; nothing when
\* the result is empty (None)
JoinDocs(text, current_doc) ==
    LET joined == RStripPiece(text, LStripPiece(text, Concat(current_doc)))
    IN  IF joined = <<>> THEN <<>> ELSE <<joined>>

\* slips in the loop condition: the size test forgotten, the overlap test forgotten
KeepPoppingOverlapOnly(total, len, size, overlap) == total > overlap

KeepPoppingSizeOnly(total, len, size, overlap) == total + len > size /\ total > 0

\* the condition of the while loop of _merge_splits (separator_len is 0)
KeepPopping(total, len, size, overlap) ==
    total > overlap \/ (total + len > size /\ total > 0)

RECURSIVE PopWhile(_, _, _, _)
PopWhile(current_doc, len, size, overlap) ==
    IF KeepPopping(Len(Concat(current_doc)), len, size, overlap)
    THEN PopWhile(Tail(current_doc), len, size, overlap)
    ELSE current_doc

\* _merge_splits(splits, ""): total is Len(Concat(current_doc)) throughout
RECURSIVE MergeSplits(_, _, _, _, _)
MergeSplits(text, splits, current_doc, size, overlap) ==
    IF splits = <<>> THEN JoinDocs(text, current_doc)
    ELSE LET d == Head(splits)
             total == Len(Concat(current_doc))
         IN  IF total + Len(d) > size /\ current_doc # <<>>
             THEN JoinDocs(text, current_doc)
                    \o MergeSplits(text, Tail(splits),
                                   Append(PopWhile(current_doc, Len(d), size, overlap), d),
                                   size, overlap)
             ELSE MergeSplits(text, Tail(splits), Append(current_doc, d), size, overlap)

\* the separator _split_text settles on: the first of separators[k..] that is
\* "" or occurs in the piece
RECURSIVE PickSeparator(_, _, _)
PickSeparator(text, piece, k) ==
    IF k >= Len(Separators) THEN Len(Separators)
    ELSE IF Separators[k] = <<>> \/ Contains(text, piece, Separators[k]) THEN k
    ELSE PickSeparator(text, piece, k + 1)

\* RecursiveCharacterTextSplitter._split_text(piece, separators[k..])
RECURSIVE SplitText(_, _, _, _, _)
RECURSIVE GoodSplits(_, _, _, _, _, _)
GoodSplits(text, splits, good, j, size, overlap) ==
    LET merged == IF good = <<>> THEN <<>> ELSE MergeSplits(text, good, <<>>, size, overlap)
    IN  IF splits = <<>> THEN merged
        ELSE LET s == Head(splits)
             IN  IF Len(s) < size
                 THEN GoodSplits(text, Tail(splits), Append(good, s), j, size, overlap)
                 ELSE merged
                        \o (IF Separators[j] = <<>> \/ j = Len(Separators)
                            THEN <<s>>
                            ELSE SplitText(text, s, j + 1, size, overlap))
                        \o GoodSplits(text, Tail(splits), <<>>, j, size, overlap)

SplitText(text, piece, k, size, overlap) ==
    LET j == PickSeparator(text, piece, k)
    IN  GoodSplits(text, SplitTextWithRegex(text, piece, Separators[j]), <<>>, j,
                   size, overlap)

\* text_splitters.split_text(text): the chunks as pieces of the text
SplitPieces(text, size, overlap) ==
    SplitText(text, [k \in 1 .. Len(text) |-> k], 1, size, overlap)

\* a splitter that would hand the metadata to the first chunk only
CreateDocumentsFirstOnly(text, meta, size, overlap) ==
    LET pieces == SplitPieces(text, size, overlap)
    IN  [k \in 1 .. Len(pieces) |->
            [page_content |-> CharsOf(text, pieces[k]),
             metadata |-> IF k = 1 THEN meta ELSE [source |-> "", url |-> ""]]]

\* create_documents([text], metadatas=[metadata])
CreateDocuments(text, meta, size, overlap) ==
    LET pieces == SplitPieces(text, size, overlap)
    IN  [k \in 1 .. Len(pieces) |->
            [page_content |-> CharsOf(text, pieces[k]), metadata |-> meta]]

\* TextChunker.chunk_text, the path that returns
ChunkText(text, meta, size, overlap) ==
    IF text = <<>> THEN <<>> ELSE CreateDocuments(text, meta, size, overlap)

\* the class chunk_text raises when the splitter fails (line 35)
ChunkingFailureClass == "DataProcessingException"

\* line 52: the metadata of every chunk of one item
chunk_metadata(url) == [source |-> url, url |-> url]

\* chunk_cleaned_data, lines 44-58: the loop over the items; the splitter
\* raises on the items of splitter_raises
RECURSIVE AllChunks(_, _, _)
AllChunks(items, splitter_raises, i) ==
    IF i > Len(items) THEN <<>>
    ELSE LET url == items[i].url
             text == items[i].cleaned_text
             chunks ==
                IF url = "" \/ text = <<>> THEN <<>>
                ELSE IF i \in splitter_raises
                THEN (IF IsInstance(ChunkingFailureClass, "DataProcessingException")
                      THEN <<>> ELSE <<[raises |-> ChunkingFailureClass]>>)
                ELSE ChunkText(text, chunk_metadata(url), CHUNK_SIZE, CHUNK_OVERLAP)
         IN  chunks \o AllChunks(items, splitter_raises, i + 1)

\* the class chunk_cleaned_data raises when nothing was chunked (line 61)
ChunkBatchFailureClass == "DataProcessingException"

\* chunk_cleaned_data: what it returns and what it raises
ChunkCleanedData(items, splitter_raises) ==
    IF items = <<>>
    THEN [returned |-> <<>>, raised |-> NoException]
    ELSE IF AllChunks(items, splitter_raises, 1) = <<>>
    THEN [returned |-> <<>>, raised |-> ChunkBatchFailureClass]
    ELSE [returned |-> AllChunks(items, splitter_raises, 1), raised |-> NoException]

(***************************************************************************)
(* The parts of the state a specification leaves untouched.                *)
(***************************************************************************)
CleanIdle ==
    /\ html_content = <<>>
    /\ main_content = 0
    /\ cleaned_text = <<>>
    /\ recleaned_text = <<>>
    /\ clean_pc = "idle"

BatchIdle ==
    /\ batch_in = <<>>
    /\ cleaned_results = <<>>
    /\ clean_raised = NoException
    /\ batch_pc = "idle"

ChunkIdle ==
    /\ chunk_size = 0
    /\ chunk_overlap = 0
    /\ text_content = <<>>
    /\ metadata = [source |-> "", url |-> ""]
    /\ documents = <<>>
    /\ spans = <<>>
    /\ chunk_raised = NoException
    /\ chunk_pc = "idle"

ChunkBatchIdle ==
    /\ cleaned_data = <<>>
    /\ splitter_failures = {}
    /\ all_chunks = <<>>
    /\ chunk_batch_raised = NoException
    /\ chunk_batch_pc = "idle"

DbIdle ==
    /\ clients = <<>>
    /\ remote_indexes = <<>>
    /\ remote_records = <<>>

ConfigIdle ==
    /\ environ = <<>>
    /\ config_raised = NoException
    /\ config_pc = "idle"

RagIdle ==
    /\ rag = <<>>
    /\ generated = <<>>

ApiIdle ==
    /\ rag_system = <<>>
    /\ startup = <<>>
    /\ requests = <<>>
    /\ health = <<>>

ServiceIdle == ChunkBatchIdle /\ DbIdle /\ ConfigIdle /\ RagIdle /\ ApiIdle

(***************************************************************************)
(* Webscraper (scraper.py): one fetch task per configured URL.  A task     *)
(* records what its browser met (error, response, status, content) and    *)
(* what _fetch_page_content returned.                                      *)
(***************************************************************************)
\* Config.SCRAPING_URLS
urls == <<"https://www.changiairport.com", "https://www.jewelchangiairport.com">>

UrlIds == 1 .. Len(urls)

\* values of the urls argument of ingest_data_pipeline: none, the list of
\* ingest_data.py lines 122-125, the configured list
UrlArguments ==
    {<<>>, <<"http://example.com/test", "https: // www.changiairport.com">>, urls}

\* a Webscraper that would take the urls it is to fetch from the caller
WebscraperUrlsOfCaller(argument) == argument

\* Webscraper.__init__ (scraper.py lines 12-13) as called at ingest_data.py
\* line 35: self.urls = Config.SCRAPING_URLS, whatever the pipeline was given
WebscraperUrls(argument) == urls

\* the statuses a response carries in the model
Statuses == {200, 203, 404}

OkStatus == 200

NewTask ==
    [pc |-> "launch", error |-> "none", response |-> "pending", status |-> 0,
     content |-> <<>>, returned |-> "pending"]

\* a status of the claimed reading: only a status outside 2xx is bad
BadStatusNon2xx(status) == status < 200 \/ status > 299

\* line 31: response.status != 200
BadStatus(status) == status # OkStatus

\* a slip that would let one fetch's failure end its siblings as well
ReturnNoneEndsSiblings(ts, i) ==
    [j \in DOMAIN ts |->
        IF j = i \/ ts[j].pc # "done"
        THEN [ts[j] EXCEPT !.pc = "done", !.returned = "None"]
        ELSE ts[j]]

\* 'return None' of task i (lines 29, 33, 42, 45)
ReturnNone(ts, i) == [ts EXCEPT ![i].pc = "done", ![i].returned = "None"]

\* the tasks that end in this step, appended in the order they ended
RECURSIVE EndedIn(_, _, _)
EndedIn(ts, next, i) ==
    IF i > Len(urls) THEN <<>>
    ELSE (IF ts[i].pc # "done" /\ next[i].pc = "done" THEN <<i>> ELSE <<>>)
            \o EndedIn(ts, next, i + 1)

FetchStep(next) ==
    /\ tasks' = next
    /\ completion_order' = completion_order \o EndedIn(tasks, next, 1)
    /\ UNCHANGED <<runVars, argVars, cleanVars, batchVars, serviceVars, chunkVars>>

\* line 20-21: the browser and the page are opened, or the launch raises
Launch(i) ==
    /\ pc = "gather"
    /\ tasks[i].pc = "launch"
    /\ \/ FetchStep([tasks EXCEPT ![i].pc = "goto"])
       \/ FetchStep(ReturnNone([tasks EXCEPT ![i].error = "launch"], i))

\* lines 25-33: page.goto raises, or answers with no response or with a status
Goto(i) ==
    /\ pc = "gather"
    /\ tasks[i].pc = "goto"
    /\ \/ FetchStep(ReturnNone([tasks EXCEPT ![i].error = "navigation"], i))
       \/ FetchStep([tasks EXCEPT ![i].response = "none", ![i].pc = "content"])
       \/ \E status \in Statuses :
            LET met == [tasks EXCEPT ![i].response = "received", ![i].status = status]
            IN  IF BadStatus(status)
                THEN FetchStep(ReturnNone(met, i))
                ELSE FetchStep([met EXCEPT ![i].pc = "content"])

\* line 35: page.content() gives the rendered HTML, or raises
Content(i) ==
    /\ pc = "gather"
    /\ tasks[i].pc = "content"
    /\ \/ \E html \in SamplePages :
            FetchStep([tasks EXCEPT ![i].content = html, ![i].pc = "close"])
       \/ FetchStep(ReturnNone([tasks EXCEPT ![i].error = "content"], i))

\* lines 37-38: browser.close(), then the content is returned; or close raises
Close(i) ==
    /\ pc = "gather"
    /\ tasks[i].pc = "close"
    /\ \/ FetchStep([tasks EXCEPT ![i].pc = "done", ![i].returned = "content"])
       \/ FetchStep(ReturnNone([tasks EXCEPT ![i].error = "close"], i))

\* what one task hands to gather: its content, or nothing (None)
ResultOf(task) == IF task.returned = "content" THEN task.content ELSE <<>>

\* a gather that would hand the results back in the order the tasks ended
GatherAsCompleted == [k \in UrlIds |-> ResultOf(tasks[completion_order[k]])]

\* line 51: asyncio.gather(*tasks): the results in the order of the tasks
Gather == [i \in UrlIds |-> ResultOf(tasks[i])]

\* lines 53-57: zip(self.urls, results), the falsy contents skipped
RECURSIVE ScrapedData(_, _)
ScrapedData(results, i) ==
    IF i > Len(urls) THEN <<>>
    ELSE (IF results[i] # <<>> THEN <<[url |-> urls[i], content |-> results[i]]>> ELSE <<>>)
            \o ScrapedData(results, i + 1)

\* the class scrape_all raises when nothing was scraped (line 60)
ScrapingFailureClass == "DataProcessingException"

\* Webscraper.scrape_all once every fetch has ended
ScrapeAll ==
    IF ScrapedData(Gather, 1) = <<>>
    THEN [returned |-> <<>>, raised |-> ScrapingFailureClass]
    ELSE [returned |-> ScrapedData(Gather, 1), raised |-> NoException]

(***************************************************************************)
(* ingest_data_pipeline (scripts/ingest_data.py).                          *)
(***************************************************************************)
\* lines 111-115: the except clauses of the outer try
PipelineFailures ==
    {"ScrapingException", "CleaningException", "ChunkingException",
     "EmbeddingException", "VectorDBException"}

\* an outer try with the clause of line 111 only
OuterHandlerPipelineOnly(exc) ==
    IF \E cls \in {"ScrapingException", "CleaningException", "ChunkingException",
                   "EmbeddingException", "VectorDBException"} : IsInstance(exc, cls)
    THEN "except pipeline failure (line 111)"
    ELSE "uncaught"

OuterHandler(exc) ==
    IF \E cls \in PipelineFailures : IsInstance(exc, cls)
    THEN "except pipeline failure (line 111)"
    ELSE "except Exception (line 114)"

\* lines 54-62: the try around scrape_all
ScrapeHandler(exc) ==
    IF IsInstance(exc, "ScrapingException")
    THEN "except ScrapingException (line 60)"
    ELSE OuterHandler(exc)

Skip == [kind |-> "skip", docs |-> <<>>, exc |-> NoException]
Raise(exc) == [kind |-> "raise", docs |-> <<>>, exc |-> exc]

\* lines 64-100: the body of the loop for one scraped next_item
ProcessOutcome(scraped, splitter_raises) ==
    LET cleaned == CleanScrapedData(<<[url |-> scraped.url, content |-> scraped.content]>>)
    IN  IF scraped.content = <<>> THEN Skip
        ELSE IF cleaned.raised # NoException
        THEN (IF IsInstance(cleaned.raised, "CleaningException")
              THEN Skip ELSE Raise(cleaned.raised))
        ELSE IF cleaned.returned = <<>> THEN Skip
        ELSE IF cleaned.returned[1].cleaned_text = <<>> THEN Skip
        ELSE IF splitter_raises
        THEN (IF IsInstance(ChunkingFailureClass, "ChunkingException")
              THEN Skip ELSE Raise(ChunkingFailureClass))
        ELSE LET chunked == ChunkText(cleaned.returned[1].cleaned_text,
                                      [source |-> scraped.url, url |-> scraped.url],
                                      CHUNK_SIZE, CHUNK_OVERLAP)
             IN  IF chunked = <<>> THEN Skip
                 ELSE [kind |-> "extend", docs |-> chunked, exc |-> NoException]

\* the run ends: an exception, if any, reaches its handler, and the finally
\* clause closes the client (lines 111-119)
EndRun(exc, handler) ==
    /\ pc' = "done"
    /\ raised' = exc
    /\ handled_by' = handler
    /\ close_calls' = close_calls + 1

PipelineIdle ==
    /\ pc = "idle"
    /\ tasks = <<>>
    /\ completion_order = <<>>
    /\ scraped_results_list = <<>>
    /\ next_item = 0
    /\ failed_items = {}
    /\ all_documents_for_db = <<>>
    /\ raised = NoException
    /\ handled_by = "none"
    /\ db_index = FALSE
    /\ index_records = <<>>
    /\ close_calls = 0
    /\ urls_argument = <<>>
    /\ scraper_urls = <<>>

Init ==
    /\ pc = "start"
    /\ tasks = <<>>
    /\ completion_order = <<>>
    /\ scraped_results_list = <<>>
    /\ next_item = 0
    /\ failed_items = {}
    /\ all_documents_for_db = <<>>
    /\ raised = NoException
    /\ handled_by = "none"
    /\ db_index = FALSE
    /\ index_records = <<>>
    /\ close_calls = 0
    /\ \E argument \in UrlArguments :
         /\ urls_argument = argument
         /\ scraper_urls = WebscraperUrls(argument)
    /\ CleanIdle
    /\ BatchIdle
    /\ ChunkIdle
    /\ ServiceIdle

\* line 48: db_client.initialize() succeeds, and scrape_all starts its fetches
\* (scraper.py lines 49-51); or it raises VectorDBException
InitializeDb ==
    /\ pc = "start"
    /\ \/ /\ db_index' = TRUE
          /\ tasks' = [i \in DOMAIN scraper_urls |-> NewTask]
          /\ pc' = "gather"
          /\ UNCHANGED <<raised, handled_by, close_calls>>
       \/ /\ EndRun("VectorDBException", OuterHandler("VectorDBException"))
          /\ UNCHANGED <<db_index, tasks>>
    /\ UNCHANGED <<completion_order, scraped_results_list, next_item, failed_items,
                   all_documents_for_db, index_records, argVars, cleanVars, batchVars,
                   serviceVars, chunkVars>>

\* scraper.py lines 51-64 and ingest_data.py lines 55-62: every fetch has
\* ended, scrape_all returns or raises, and the pipeline goes on or ends
GatherReturns ==
    /\ pc = "gather"
    /\ \A i \in UrlIds : tasks[i].pc = "done"
    /\ IF ScrapeAll.raised # NoException
       THEN /\ EndRun(ScrapeAll.raised, ScrapeHandler(ScrapeAll.raised))
            /\ UNCHANGED <<scraped_results_list, next_item>>
       ELSE IF ScrapeAll.returned = <<>>
       THEN /\ EndRun(NoException, "none")
            /\ UNCHANGED <<scraped_results_list, next_item>>
       ELSE /\ scraped_results_list' = ScrapeAll.returned
            /\ next_item' = 1
            /\ pc' = "process"
            /\ UNCHANGED <<raised, handled_by, close_calls>>
    /\ UNCHANGED <<fetchVars, argVars, failed_items, all_documents_for_db, db_index,
                   index_records, cleanVars, batchVars, serviceVars, chunkVars>>

\* lines 64-100: one turn of the loop over the scraped items
ProcessItem ==
    /\ pc = "process"
    /\ next_item <= Len(scraped_results_list)
    /\ \E splitter_raises \in BOOLEAN :
         LET outcome == ProcessOutcome(scraped_results_list[next_item], splitter_raises)
         IN  /\ failed_items' = IF outcome.kind = "extend" THEN failed_items
                                ELSE failed_items \cup {next_item}
             /\ all_documents_for_db' = all_documents_for_db \o outcome.docs
             /\ IF outcome.kind = "raise"
                THEN /\ EndRun(outcome.exc, OuterHandler(outcome.exc))
                     /\ UNCHANGED next_item
                ELSE /\ next_item' = next_item + 1
                     /\ UNCHANGED <<pc, raised, handled_by, close_calls>>
    /\ UNCHANGED <<fetchVars, argVars, scraped_results_list, db_index, index_records,
                   cleanVars, batchVars, serviceVars, chunkVars>>

\* a pipeline that would upsert what it has after each page
UpsertEachItem ==
    /\ pc = "process"
    /\ next_item <= Len(scraped_results_list)
    /\ all_documents_for_db # <<>>
    /\ index_records = <<>>
    /\ index_records' = all_documents_for_db
    /\ UNCHANGED <<fetchVars, argVars, pc, raised, handled_by, close_calls,
                   scraped_results_list, next_item, failed_items, all_documents_for_db,
                   db_index, cleanVars, batchVars, serviceVars, chunkVars>>

\* lines 102-109: nothing to upsert, or one upsert of all the documents, which
\* the vector store takes or fails (VectorDBException)
Upsert ==
    /\ pc = "process"
    /\ next_item > Len(scraped_results_list)
    /\ IF all_documents_for_db = <<>>
       THEN /\ EndRun(NoException, "none")
            /\ UNCHANGED index_records
       ELSE \/ /\ index_records' = index_records \o all_documents_for_db
               /\ EndRun(NoException, "none")
            \/ /\ EndRun("VectorDBException", OuterHandler("VectorDBException"))
               /\ UNCHANGED index_records
    /\ UNCHANGED <<fetchVars, argVars, scraped_results_list, next_item, failed_items,
                   all_documents_for_db, db_index, cleanVars, batchVars, serviceVars,
                   chunkVars>>

Next ==
    \/ InitializeDb
    \/ \E i \in UrlIds : Launch(i) \/ Goto(i) \/ Content(i) \/ Close(i)
    \/ GatherReturns
    \/ ProcessItem
    \/ Upsert

Spec == Init /\ [][Next]_vars

(***************************************************************************)
(* SpecCleanHtml: _clean_html_content applied to one document, and its     *)
(* output fed back through it.                                             *)
(***************************************************************************)
InitCleanHtml ==
    /\ \E n \in 0 .. MaxNodes :
         \E shape \in [1 .. n -> NodeShapes] :
           \E parent \in [1 .. n -> 0 .. MaxNodes - 1] :
             /\ html_content = [i \in 1 .. n |-> [shape[i] EXCEPT !.parent = parent[i]]]
             /\ WellFormed(html_content)
    /\ main_content = 0
    /\ cleaned_text = <<>>
    /\ recleaned_text = <<>>
    /\ clean_pc = "input"
    /\ BatchIdle
    /\ ChunkIdle
    /\ PipelineIdle
    /\ ServiceIdle

CleanOnce ==
    /\ clean_pc = "input"
    /\ main_content' = MainContentOf(html_content)
    /\ cleaned_text' = CleanHtmlContent(html_content)
    /\ clean_pc' = "cleaned"
    /\ UNCHANGED <<html_content, recleaned_text, batchVars, serviceVars, chunkVars,
                   pipelineVars>>

CleanAgain ==
    /\ clean_pc = "cleaned"
    /\ recleaned_text' = CleanHtmlContent(ParseText(cleaned_text))
    /\ clean_pc' = "recleaned"
    /\ UNCHANGED <<html_content, main_content, cleaned_text, batchVars, serviceVars, chunkVars,
                   pipelineVars>>

NextCleanHtml == CleanOnce \/ CleanAgain

SpecCleanHtml == InitCleanHtml /\ [][NextCleanHtml]_vars

(***************************************************************************)
(* SpecCleanBatch: clean_scraped_data applied to a batch of scraped pages. *)
(***************************************************************************)
BatchUrls == {"u1", "u2"}

InitCleanBatch ==
    /\ \E n \in 0 .. MaxPages :
         batch_in \in [1 .. n -> [url : BatchUrls, content : SamplePages]]
    /\ cleaned_results = <<>>
    /\ clean_raised = NoException
    /\ batch_pc = "input"
    /\ CleanIdle
    /\ ChunkIdle
    /\ PipelineIdle
    /\ ServiceIdle

CleanBatch ==
    /\ batch_pc = "input"
    /\ cleaned_results' = CleanScrapedData(batch_in).returned
    /\ clean_raised' = CleanScrapedData(batch_in).raised
    /\ batch_pc' = "done"
    /\ UNCHANGED <<batch_in, cleanVars, chunkVars, pipelineVars, serviceVars>>

NextCleanBatch == CleanBatch

SpecCleanBatch == InitCleanBatch /\ [][NextCleanBatch]_vars

(***************************************************************************)
(* SpecChunk: a TextChunker built with chunk_overlap < chunk_size, and     *)
(* chunk_text applied to one text.                                         *)
(***************************************************************************)
Chars == {"a", "b", " ", "\n"}

InitChunk ==
    /\ chunk_size \in 1 .. MaxChunkSize
    /\ chunk_overlap \in 0 .. chunk_size - 1
    /\ \E n \in 0 .. MaxTextLen : text_content \in [1 .. n -> Chars]
    /\ metadata = [source |-> "u1", url |-> "u1"]
    /\ documents = <<>>
    /\ spans = <<>>
    /\ chunk_raised = NoException
    /\ chunk_pc = "input"
    /\ CleanIdle
    /\ BatchIdle
    /\ PipelineIdle
    /\ ServiceIdle

\* chunk_text returns (lines 23-29)
ChunkTextReturns ==
    /\ chunk_pc = "input"
    /\ documents' = ChunkText(text_content, metadata, chunk_size, chunk_overlap)
    /\ spans' = IF text_content = <<>> THEN <<>>
                 ELSE SplitPieces(text_content, chunk_size, chunk_overlap)
    /\ chunk_pc' = "returned"
    /\ UNCHANGED <<chunk_size, chunk_overlap, text_content, metadata, chunk_raised,
                   cleanVars, batchVars, serviceVars, pipelineVars>>

\* the splitter raises on a non-empty text; chunk_text raises in turn (lines 32-34)
ChunkTextRaises ==
    /\ chunk_pc = "input"
    /\ text_content # <<>>
    /\ chunk_raised' = "DataProcessingException"
    /\ chunk_pc' = "raised"
    /\ UNCHANGED <<chunk_size, chunk_overlap, text_content, metadata, documents, spans,
                   cleanVars, batchVars, serviceVars, pipelineVars>>

NextChunk == ChunkTextReturns \/ ChunkTextRaises

SpecChunk == InitChunk /\ [][NextChunk]_vars

(***************************************************************************)
(* SpecChunkBatch: chunk_cleaned_data applied to a batch of cleaned pages, *)
(* by a TextChunker of the configured chunk size and overlap.              *)
(***************************************************************************)
SampleTexts == {<<>>, <<"a">>, <<"b", " ", "c">>, <<"a", "b", " ", "c", "d">>}

\* the items on which chunk_text is called (line 55)
Chunked(items) ==
    {i \in 1 .. Len(items) : items[i].url # "" /\ items[i].cleaned_text # <<>>}

InitChunkBatch ==
    /\ \E n \in 0 .. MaxPages :
         cleaned_data \in [1 .. n -> [url : BatchUrls \cup {""}, cleaned_text : SampleTexts]]
    /\ splitter_failures = {}
    /\ all_chunks = <<>>
    /\ chunk_batch_raised = NoException
    /\ chunk_batch_pc = "input"
    /\ CleanIdle
    /\ BatchIdle
    /\ ChunkIdle
    /\ PipelineIdle
    /\ DbIdle
    /\ ConfigIdle
    /\ RagIdle
    /\ ApiIdle

ChunkBatch ==
    /\ chunk_batch_pc = "input"
    /\ \E splitter_raises \in SUBSET Chunked(cleaned_data) :
         /\ splitter_failures' = splitter_raises
         /\ all_chunks' = ChunkCleanedData(cleaned_data, splitter_raises).returned
         /\ chunk_batch_raised' = ChunkCleanedData(cleaned_data, splitter_raises).raised
    /\ chunk_batch_pc' = "done"
    /\ UNCHANGED <<cleaned_data, cleanVars, batchVars, chunkVars, pipelineVars, dbVars,
                   configVars, ragVars, apiVars>>

NextChunkBatch == ChunkBatch

SpecChunkBatch == InitChunkBatch /\ [][NextChunkBatch]_vars

(***************************************************************************)
(* SpecProvenance: the two ways a chunk comes to be: an ingestion run, or  *)
(* a call of chunk_cleaned_data.                                           *)
(***************************************************************************)
SpecProvenance == (Init \/ InitChunkBatch) /\ [][Next \/ NextChunkBatch]_vars

(***************************************************************************)
(* VectorDBClient (embeddings/vector_db_client.py) and the vector store    *)
(* service.  A client records its fields, where its initialize stands      *)
(* (pc), and, of its latest call: which method (op), the remote calls it   *)
(* made with their answers (calls), its arguments, and what it returned or *)
(* raised.  The service holds the indexes by name and the records of the   *)
(* named index.                                                            *)
(***************************************************************************)
\* Config.PINECONE_INDEX_NAME
PINECONE_INDEX_NAME == "llmchatbot-index"

\* 'not value': None and the empty string are falsy
Falsy(value) == value \in {"None", ""}

\* str.lower() on the words of the model
Lower(name) ==
    CASE name = "Pinecone" -> "pinecone"
      [] name = "True" -> "true"
      [] name = "False" -> "false"
      [] OTHER -> name

\* VectorDBClient.__init__
NewClient(provider, api_key, environment, index_name) ==
    [provider |-> Lower(provider), api_key |-> api_key, environment |-> environment,
     index_name |-> index_name, pinecone_client |-> FALSE, index |-> "None",
     vectorstore |-> FALSE, pc |-> "idle", op |-> "none", calls |-> <<>>,
     listing |-> {}, create_error |-> <<>>, documents |-> <<>>, top_k |-> 0,
     returned |-> <<>>,
     raised |-> NoException, initialized |-> FALSE]

\* a credentials test that would fail only with both credentials missing
MissingBothCredentials(client) == Falsy(client.api_key) /\ Falsy(client.environment)

\* line 26: not self.api_key or not self.environment
MissingCredentials(client) == Falsy(client.api_key) \/ Falsy(client.environment)

\* a readiness test on the SDK client instead of the index handle
NotReadyByClient(client) == ~ client.pinecone_client

\* lines 69 and 89: not self.index
NotReady(client) == client.index = "None"

\* 'fragment in message': the fragment is a run of the message's parts
Within(fragment, message) ==
    \E a \in 1 .. Len(message) :
        /\ a + Len(fragment) - 1 <= Len(message)
        /\ SubSeq(message, a, a + Len(fragment) - 1) = fragment

\* str(e) of the exception a create of an existing index raises.  The
\* pinecone SDK is not pinned by the repository: its generated exception
\* prints the status and the reason on two lines; a one-line form is what
\* line 49 looks for
ConflictMessages ==
    {<<"(409)", " ", "Conflict", ": ", "ALREADY_EXISTS">>,
     <<"(409)", "\n", "Reason: ", "Conflict", "\n", "HTTP response body: ",
       "ALREADY_EXISTS">>}

\* str(e) of a create that fails for another reason
OtherFailureMessage == <<"(403)", "\n", "Reason: ", "Forbidden">>

\* line 49: "(409) Conflict" in str(e) and "ALREADY_EXISTS" in str(e)
IsAlreadyExists(message) ==
    /\ Within(<<"(409)", " ", "Conflict">>, message)
    /\ Within(<<"ALREADY_EXISTS">>, message)

\* line 36: self.index_name not in existing_index_names
NeedsCreate(client, listed) == client.index_name \notin listed

\* a method is entered: the record of the latest call starts afresh
Begin(client, op) ==
    [client EXCEPT !.op = op, !.calls = <<>>, !.create_error = <<>>, !.documents = <<>>,
                   !.top_k = 0, !.returned = <<>>, !.raised = NoException]

\* one call to the SDK and its answer
Called(client, call, answer) ==
    [client EXCEPT !.calls = Append(@, [call |-> call, answer |-> answer])]

\* the method raises
Raises(client, exc) == [client EXCEPT !.pc = "idle", !.raised = exc]

\* the names list_indexes answers with
IndexNames(indexes) == {indexes[i] : i \in 1 .. Len(indexes)}

\* how often an index of this name exists in the service
CountIndex(indexes, name) == Cardinality({i \in 1 .. Len(indexes) : indexes[i] = name})

SetClient(c, client) ==
    /\ clients' = [clients EXCEPT ![c] = client]
    /\ UNCHANGED <<cleanVars, batchVars, chunkVars, pipelineVars, chunkBatchVars,
                   configVars, ragVars, apiVars>>

\* lines 24-30: the provider and credentials tests, then the SDK client is
\* built, or its constructor raises (lines 59-61)
Initialize(c) ==
    /\ clients[c].pc = "idle"
    /\ LET client == Begin(clients[c], "initialize")
       IN  IF client.provider # "pinecone" \/ MissingCredentials(client)
           THEN SetClient(c, Raises(client, "VectorDBException"))
           ELSE \/ SetClient(c, [client EXCEPT !.pinecone_client = TRUE, !.pc = "list"])
                \/ SetClient(c, Raises(client, "VectorDBException"))
    /\ UNCHANGED <<remote_indexes, remote_records>>

\* lines 32-36: the index names are listed, or the listing raises
ListIndexes(c) ==
    /\ clients[c].pc = "list"
    /\ \/ LET listed == IndexNames(remote_indexes)
              client == Called(clients[c], "list_indexes", "ok")
          IN  SetClient(c, [client EXCEPT
                                !.listing = listed,
                                !.pc = IF NeedsCreate(client, listed)
                                       THEN "create" ELSE "index"])
       \/ SetClient(c, Raises(Called(clients[c], "list_indexes", "failed"),
                              "VectorDBException"))
    /\ UNCHANGED <<remote_indexes, remote_records>>

\* lines 40-52: what create_index answered (message: str(e) of the exception
\* it raised, if any), and what the handler makes of it
AfterCreate(client, answer, message) ==
    LET called == [Called(client, "create_index", answer) EXCEPT !.create_error = message]
    IN  IF answer = "created" \/ IsAlreadyExists(message)
        THEN [called EXCEPT !.pc = "index"]
        ELSE Raises(called, "VectorDBException")

\* lines 40-52: the service creates the index, or answers that it already
\* exists, or the create fails otherwise
CreateIndex(c) ==
    /\ clients[c].pc = "create"
    /\ \/ /\ clients[c].index_name \notin IndexNames(remote_indexes)
          /\ remote_indexes' = Append(remote_indexes, clients[c].index_name)
          /\ SetClient(c, AfterCreate(clients[c], "created", <<>>))
       \/ /\ clients[c].index_name \in IndexNames(remote_indexes)
          /\ \E message \in ConflictMessages :
                SetClient(c, AfterCreate(clients[c], "already_exists", message))
          /\ UNCHANGED remote_indexes
       \/ /\ SetClient(c, AfterCreate(clients[c], "failed", OtherFailureMessage))
          /\ UNCHANGED remote_indexes
    /\ UNCHANGED remote_records

\* line 56: the index handle is obtained, or obtaining it raises
GetIndex(c) ==
    /\ clients[c].pc = "index"
    /\ \/ SetClient(c, [Called(clients[c], "Index", "ok") EXCEPT
                            !.index = clients[c].index_name, !.pc = "idle",
                            !.initialized = TRUE])
       \/ SetClient(c, Raises(Called(clients[c], "Index", "failed"), "VectorDBException"))
    /\ UNCHANGED <<remote_indexes, remote_records>>

\* an id derived from the text, which a second upsert of the text would reuse
DocumentIdByContent(doc, fresh) == <<"hash", 0, doc.page_content>>

\* PineconeVectorStore.from_documents gives every document a new uuid4
DocumentId(doc, fresh) == <<"uuid", fresh, <<>>>>

\* the service's upsert of one record: a record of the same id is replaced
RemoteUpsert(records, record) ==
    IF \E i \in 1 .. Len(records) : records[i].id = record.id
    THEN [i \in 1 .. Len(records) |->
            IF records[i].id = record.id THEN record ELSE records[i]]
    ELSE Append(records, record)

\* line 76-81: from_documents(documents, ...) on the named index
RECURSIVE FromDocuments(_, _)
FromDocuments(records, docs) ==
    IF docs = <<>> THEN records
    ELSE FromDocuments(
            RemoteUpsert(records,
                         [id |-> DocumentId(Head(docs), Len(records) + 1),
                          page_content |-> Head(docs).page_content,
                          metadata |-> Head(docs).metadata]),
            Tail(docs))

\* no document, the chunk of one page, or the chunks of two pages
DocumentBatches ==
    {<<>>,
     <<[page_content |-> <<"a">>, metadata |-> [source |-> "u1", url |-> "u1"]]>>,
     <<[page_content |-> <<"a">>, metadata |-> [source |-> "u1", url |-> "u1"]],
       [page_content |-> <<"b">>, metadata |-> [source |-> "u2", url |-> "u2"]]>>}

\* upsert_documents (lines 68-86)
UpsertDocuments(c) ==
    /\ clients[c].pc = "idle"
    /\ \E docs \in DocumentBatches :
         LET client == [Begin(clients[c], "upsert_documents") EXCEPT !.documents = docs]
         IN  IF NotReady(client)
             THEN /\ SetClient(c, Raises(client, "VectorDBException"))
                  /\ UNCHANGED remote_records
             ELSE IF docs = <<>>
             THEN /\ SetClient(c, client)
                  /\ UNCHANGED remote_records
             ELSE /\ Len(remote_records) + Len(docs) <= MaxRecords
                  /\ \/ /\ remote_records' = FromDocuments(remote_records, docs)
                        /\ SetClient(c, Called(client, "from_documents", "ok"))
                     \/ \E n \in 0 .. Len(docs) - 1 :
                           /\ remote_records' =
                                 FromDocuments(remote_records, SubSeq(docs, 1, n))
                           /\ SetClient(c, Raises(Called(client, "from_documents", "failed"),
                                                  "VectorDBException"))
    /\ UNCHANGED remote_indexes

\* get_retriever (lines 88-104): the vector store object is built on first
\* use, or building it raises
GetRetriever(c) ==
    /\ clients[c].pc = "idle"
    /\ LET client == Begin(clients[c], "get_retriever")
       IN  IF NotReady(client)
           THEN SetClient(c, Raises(client, "VectorDBException"))
           ELSE IF ~ client.vectorstore
           THEN \/ SetClient(c, [client EXCEPT !.vectorstore = TRUE])
                \/ SetClient(c, Raises(client, "VectorDBException"))
           ELSE SetClient(c, client)
    /\ UNCHANGED <<remote_indexes, remote_records>>

\* Config.NUMBER_OF_RETRIEVED_DOCS, which get_retriever hands to as_retriever
\* (line 104) and which is also the vector store's own default k
NUMBER_OF_RETRIEVED_DOCS == 4

\* what a similarity search for k records may answer: the k nearest records
\* (all of them when there are fewer), whichever the nearest are
SimilaritySearch(records, k) ==
    {[j \in 1 .. Cardinality(hits) |->
         records[CHOOSE i \in hits : Cardinality({h \in hits : h < i}) = j - 1]] :
       hits \in {h \in SUBSET (1 .. Len(records)) :
                   Cardinality(h) = IF Len(records) < k THEN Len(records) ELSE k}}

\* retriever.ainvoke(query, config={"k": top_k}) (retriever.py line 47): the
\* config is no search argument, the retriever searches with its own k
SearchK(top_k) == NUMBER_OF_RETRIEVED_DOCS

\* ContentRetriever.get_relevant_documents (retriever.py lines 40-58) once the
\* retriever has been obtained: the search answers, or raises
GetRelevantDocuments(c) ==
    /\ clients[c].pc = "idle"
    /\ clients[c].vectorstore
    /\ \E top_k \in 1 .. MaxTopK :
         LET client == [Begin(clients[c], "get_relevant_documents") EXCEPT !.top_k = top_k]
         IN  \/ \E found \in SimilaritySearch(remote_records, SearchK(top_k)) :
                  SetClient(c, [Called(client, "query", "ok") EXCEPT !.returned = found])
             \/ SetClient(c, Raises(Called(client, "query", "failed"), "PineconeException"))
    /\ UNCHANGED <<remote_indexes, remote_records>>

(***************************************************************************)
(* SpecVectorDB: two clients of one vector store service, both built from  *)
(* one configuration: the ingestion run's (ingest_data.py lines 39-44) and *)
(* the retriever's (retriever.py lines 18-23), each calling the methods    *)
(* its owner calls, in any order.                                          *)
(***************************************************************************)
IngestionClient == 1
RetrieverClient == 2
ClientIds == {IngestionClient, RetrieverClient}

\* Config.VECTOR_DB_PROVIDER, PINECONE_API_KEY and PINECONE_ENVIRONMENT
Configurations ==
    {<<"Pinecone", "key", "env">>, <<"pinecone", "", "env">>, <<"pinecone", "key", "None">>,
     <<"pinecone", "None", "">>, <<"chroma", "key", "env">>, <<"chroma", "None", "None">>}

InitVectorDB ==
    /\ \E cfg \in Configurations :
         clients = [c \in ClientIds |->
                        NewClient(cfg[1], cfg[2], cfg[3], PINECONE_INDEX_NAME)]
    /\ remote_indexes \in {<<>>, <<"other-index">>, <<PINECONE_INDEX_NAME>>}
    /\ remote_records = <<>>
    /\ CleanIdle
    /\ BatchIdle
    /\ ChunkIdle
    /\ PipelineIdle
    /\ ChunkBatchIdle
    /\ ConfigIdle
    /\ RagIdle
    /\ ApiIdle

NextVectorDB ==
    \/ \E c \in ClientIds : Initialize(c) \/ ListIndexes(c) \/ CreateIndex(c) \/ GetIndex(c)
    \/ UpsertDocuments(IngestionClient)
    \/ GetRetriever(RetrieverClient)
    \/ GetRelevantDocuments(RetrieverClient)

SpecVectorDB == InitVectorDB /\ [][NextVectorDB]_vars

(***************************************************************************)
(* Config (config.py): the class body reads the environment, then the      *)
(* module checks the credentials.  "None" stands for a variable that is    *)
(* not set.                                                                *)
(***************************************************************************)
\* os.getenv(name, default)
Getenv(env, name, default) == IF env[name] = "None" THEN default ELSE env[name]

\* line 10
DEBUG(env) == Lower(Getenv(env, "DEBUG", "False")) = "true"

\* line 23
VECTOR_DB_PROVIDER(env) == Lower(Getenv(env, "VECTOR_DB_PROVIDER", "pinecone"))

\* lines 47-51: what importing the module raises
LoadConfig(env) ==
    IF DEBUG(env) THEN NoException
    ELSE IF Falsy(env["OPENAI_API_KEY"]) /\ Falsy(env["HUGGINGFACE_API_KEY"])
    THEN "ValueError"
    ELSE IF /\ VECTOR_DB_PROVIDER(env) = "pinecone"
            /\ (Falsy(env["PINECONE_ENVIRONMENT"]) \/ ~ Falsy(env["PINECONE_API_KEY"]))
    THEN "ValueError"
    ELSE NoException

(***************************************************************************)
(* SpecConfig: config.py is imported under some environment.               *)
(***************************************************************************)
Secrets == {"None", "", "key"}

InitConfig ==
    /\ environ \in [DEBUG : {"None", "true", "True", "false"},
                     OPENAI_API_KEY : Secrets,
                     HUGGINGFACE_API_KEY : Secrets,
                     VECTOR_DB_PROVIDER : {"None", "Pinecone", "chroma"},
                     PINECONE_API_KEY : Secrets,
                     PINECONE_ENVIRONMENT : Secrets]
    /\ config_raised = NoException
    /\ config_pc = "start"
    /\ CleanIdle
    /\ BatchIdle
    /\ ChunkIdle
    /\ PipelineIdle
    /\ ChunkBatchIdle
    /\ DbIdle
    /\ RagIdle
    /\ ApiIdle

ImportConfig ==
    /\ config_pc = "start"
    /\ config_raised' = LoadConfig(environ)
    /\ config_pc' = "loaded"
    /\ UNCHANGED <<environ, cleanVars, batchVars, chunkVars, pipelineVars, chunkBatchVars,
                   dbVars, ragVars, apiVars>>

NextConfig == ImportConfig

SpecConfig == InitConfig /\ [][NextConfig]_vars

(***************************************************************************)
(* RAGChain (rag/rag_chain.py) over its ContentRetriever                   *)
(* (rag/retriever.py).  The object records whether its chain is built and  *)
(* what its retriever holds: the embedding model, an initialized           *)
(* vector-store client, the retriever object.                              *)
(***************************************************************************)
\* RAGChain.__init__ (lines 20-26) and ContentRetriever.__init__
NewRAGChain ==
    [rag_chain |-> FALSE, embedding_model |-> FALSE, db_index |-> FALSE,
     retriever |-> FALSE]

\* how one run of ContentRetriever.initialize may go
InitializeOutcomes ==
    {"ok", "get_embedding_model raises", "db_client.initialize raises",
     "get_retriever raises"}

\* ContentRetriever.initialize (retriever.py lines 28-37)
RetrieverInitialize(chain, outcome) ==
    IF ~ chain.embedding_model /\ outcome = "get_embedding_model raises"
    THEN [rag |-> chain, raised |-> "EmbeddingException"]
    ELSE LET loaded == [chain EXCEPT !.embedding_model = TRUE]
         IN  IF outcome = "db_client.initialize raises"
             THEN [rag |-> loaded, raised |-> "VectorDBException"]
             ELSE LET ready == [loaded EXCEPT !.db_index = TRUE]
                  IN  IF ~ ready.retriever /\ outcome = "get_retriever raises"
                      THEN [rag |-> ready, raised |-> "VectorDBException"]
                      ELSE [rag |-> [ready EXCEPT !.retriever = TRUE],
                            raised |-> NoException]

\* the outcome as it takes place on this object: a call that initialize
\* skips (lines 29 and 35 of retriever.py) cannot raise
Happened(chain, outcome) ==
    IF chain.embedding_model /\ outcome = "get_embedding_model raises" THEN "ok"
    ELSE IF chain.retriever /\ outcome = "get_retriever raises" THEN "ok"
    ELSE outcome

\* RAGChain.initialize (lines 28-52)
RAGChainInitialize(chain, outcome) ==
    LET initialized == RetrieverInitialize(chain, outcome)
    IN  IF initialized.raised # NoException THEN initialized
        ELSE [rag |-> [initialized.rag EXCEPT !.rag_chain = TRUE], raised |-> NoException]

\* what the search of the retrieval step may raise
RetrievalOutcomes ==
    {"ok", "VectorDBException", "EmbeddingException", "PineconeException", "RuntimeError"}

\* what the model call may raise
ModelOutcomes == {"ok", "APIError"}

\* handlers that would turn every failure of the search into a
\* VectorDBException
ReraisedAsVectorDB(exc) == "VectorDBException"

\* the except clauses of get_relevant_documents (retriever.py lines 50-58):
\* a VectorDBException is raised anew as a VectorDBException, an
\* EmbeddingException anew as an EmbeddingException, anything else goes on
\* as it is
Reraised(exc) ==
    IF IsInstance(exc, "VectorDBException") THEN "VectorDBException"
    ELSE IF IsInstance(exc, "EmbeddingException") THEN "EmbeddingException"
    ELSE exc

\* the context step of the chain, ContentRetriever.get_relevant_documents
\* (retriever.py lines 40-58): the retriever is initialized on first use
\* (before the try), then the search answers or raises
RetrievalStep(chain, init_outcome, retrieval) ==
    LET first == IF chain.retriever THEN [rag |-> chain, raised |-> NoException]
                 ELSE RetrieverInitialize(chain, init_outcome)
    IN  IF first.raised # NoException THEN first
        ELSE [rag |-> first.rag,
              raised |-> IF retrieval = "ok" THEN NoException ELSE Reraised(retrieval)]

\* line 65
FallbackMessage ==
    <<"I", "'", "m", " ", "s", "o", "r", "r", "y", ",", " ", "I", " ",
      "c", "o", "u", "l", "d", "n", "'", "t", " ", "f", "i", "n", "d",
      " ", "r", "e", "l", "e", "v", "a", "n", "t", " ", "i", "n", "f",
      "o", "r", "m", "a", "t", "i", "o", "n", ".">>

\* a test that would take only the empty completion for blank
IsEmptyOnly(response) == response = <<>>

\* line 63: not response or response.strip() == ""
IsBlank(response) == response = <<>> \/ Strip(response) = <<>>

\* except clauses that would also drop the chain of the object
WrappedAndReset(chain, exc) ==
    [rag |-> [chain EXCEPT !.rag_chain = FALSE], returned |-> <<>>,
     raised |-> "GenerationException", cause |-> exc, handler |-> "reset"]

\* lines 70-75: the except clauses of generate_response
Wrapped(chain, exc) ==
    [rag |-> chain, returned |-> <<>>, raised |-> "GenerationException", cause |-> exc,
     handler |-> IF IsInstance(exc, "VectorDBException") \/ IsInstance(exc, "EmbeddingException")
                 THEN "except (VectorDBException, EmbeddingException) (line 70)"
                 ELSE "except Exception (line 73)"]

\* RAGChain.generate_response (lines 54-75)
GenerateResponse(chain, init_outcome, retrieval, model, completion) ==
    LET first == IF chain.rag_chain THEN [rag |-> chain, raised |-> NoException]
                 ELSE RAGChainInitialize(chain, init_outcome)
        context == RetrievalStep(first.rag, init_outcome, retrieval)
    IN  IF first.raised # NoException
        THEN [rag |-> first.rag, returned |-> <<>>, raised |-> first.raised,
              cause |-> NoException, handler |-> "none"]
        ELSE IF context.raised # NoException THEN Wrapped(context.rag, context.raised)
        ELSE IF model # "ok" THEN Wrapped(context.rag, model)
        ELSE [rag |-> context.rag,
              returned |-> IF IsBlank(completion) THEN FallbackMessage ELSE completion,
              raised |-> NoException, cause |-> NoException, handler |-> "none"]

(***************************************************************************)
(* SpecRag: a RAGChain is built; initialize and generate_response are      *)
(* called on it, in any order.                                             *)
(***************************************************************************)
Queries == {"q1", "q2"}

Completions ==
    {<<>>, <<" ">>, <<"\n", " ">>, <<"a">>, <<" ", "a", " ">>, <<"a", "\n", "b">>}

NoCall ==
    [op |-> "none", calls |-> 0, query |-> "", init_outcome |-> "none", retrieval |-> "none",
     model |-> "none", completion |-> <<>>, was_built |-> FALSE, returned |-> <<>>,
     raised |-> NoException, cause |-> NoException, handler |-> "none"]

InitRag ==
    /\ rag = NewRAGChain
    /\ generated = NoCall
    /\ CleanIdle
    /\ BatchIdle
    /\ ChunkIdle
    /\ PipelineIdle
    /\ ChunkBatchIdle
    /\ DbIdle
    /\ ConfigIdle
    /\ ApiIdle

\* rag_system.initialize() (api_server.py line 51)
InitializeChain ==
    /\ \E outcome \in InitializeOutcomes :
         LET done == RAGChainInitialize(rag, outcome)
         IN  /\ rag' = done.rag
             /\ generated' = [NoCall EXCEPT !.op = "initialize",
                                            !.init_outcome = Happened(rag, outcome),
                                            !.calls = generated.calls,
                                            !.was_built = rag.rag_chain,
                                            !.raised = done.raised]
    /\ UNCHANGED <<cleanVars, batchVars, chunkVars, pipelineVars, chunkBatchVars, dbVars,
                   configVars, apiVars>>

\* rag_system.generate_response(query) (api_server.py line 78).  The outcome
\* of a step that is not reached is written "none"
Generate ==
    /\ generated.calls < MaxCalls
    /\ \E query \in Queries, init_outcome \in InitializeOutcomes,
          retrieval \in RetrievalOutcomes, model \in ModelOutcomes,
          completion \in Completions :
         LET done == GenerateResponse(rag, init_outcome, retrieval, model, completion)
             initialized == ~ rag.rag_chain
             searched == done.raised = NoException \/ done.handler # "none"
             asked == searched /\ retrieval = "ok"
             answered == asked /\ model = "ok"
         IN  /\ rag' = done.rag
             /\ generated' =
                   [op |-> "generate_response", calls |-> generated.calls + 1,
                    query |-> query,
                    init_outcome |-> IF initialized THEN Happened(rag, init_outcome)
                                     ELSE "none",
                    retrieval |-> IF searched THEN retrieval ELSE "none",
                    model |-> IF asked THEN model ELSE "none",
                    completion |-> IF answered THEN completion ELSE <<>>,
                    was_built |-> rag.rag_chain,
                    returned |-> done.returned, raised |-> done.raised,
                    cause |-> done.cause, handler |-> done.handler]
    /\ UNCHANGED <<cleanVars, batchVars, chunkVars, pipelineVars, chunkBatchVars, dbVars,
                   configVars, apiVars>>

\* retriever.get_relevant_documents(query) called on the chain's retriever
\* directly (as in retriever.py line 72)
Retrieve ==
    /\ generated.calls < MaxCalls
    /\ \E query \in Queries, init_outcome \in InitializeOutcomes,
          retrieval \in RetrievalOutcomes :
         LET done == RetrievalStep(rag, init_outcome, retrieval)
             initialized == ~ rag.retriever
             searched == done.rag.retriever
         IN  /\ rag' = done.rag
             /\ generated' =
                   [NoCall EXCEPT !.op = "get_relevant_documents",
                                  !.calls = generated.calls + 1,
                                  !.query = query,
                                  !.init_outcome = IF initialized
                                                   THEN Happened(rag, init_outcome)
                                                   ELSE "none",
                                  !.retrieval = IF searched THEN retrieval ELSE "none",
                                  !.was_built = rag.retriever,
                                  !.raised = done.raised]
    /\ UNCHANGED <<cleanVars, batchVars, chunkVars, pipelineVars, chunkBatchVars, dbVars,
                   configVars, apiVars>>

NextRag == InitializeChain \/ Generate \/ Retrieve

SpecRag == InitRag /\ [][NextRag]_vars

(***************************************************************************)
(* The API server (api_server.py).  Its handlers are coroutines on one     *)
(* event loop: a handler runs alone from one suspension to the next.       *)
(* initialize suspends once, in db_client.initialize, at                   *)
(* "await asyncio.to_thread(self.pinecone_client.list_indexes)"            *)
(* (vector_db_client.py line 66); generate_response suspends in            *)
(* "await self.rag_chain.ainvoke(query)" (rag_chain.py line 61).  The      *)
(* server takes requests once the startup event has returned.              *)
(***************************************************************************)
\* how the part of initialize after the listing may go
ResumeOutcomes == {"ok", "db_client.initialize raises", "get_retriever raises"}

\* RAGChain.initialize up to its suspension: retriever.py lines 29-32 and
\* vector_db_client.py lines 25-32.  The vectorizer of a constructed
\* RAGChain holds its model (vectorizer.py lines 14-38 raise in the
\* constructor otherwise), so get_embedding_model answers
InitializeUntilListing(chain, credentials) ==
    [rag |-> [chain EXCEPT !.embedding_model = TRUE],
     raised |-> IF credentials THEN NoException ELSE "VectorDBException"]

\* chat_endpoint's answer to what generate_response returned or raised
\* (api_server.py lines 78-89)
ChatResponse(exc, returned) ==
    IF exc = NoException
    THEN [status |-> 200, response |-> returned, handler |-> "none"]
    ELSE [status |-> 500, response |-> <<>>,
          handler |-> IF IsInstance(exc, "GenerationException")
                      THEN "except GenerationException (line 81)"
                      ELSE IF IsInstance(exc, "VectorDBException")
                              \/ IsInstance(exc, "EmbeddingException")
                      THEN "except (VectorDBException, EmbeddingException) (line 84)"
                      ELSE "except Exception (line 87)"]

\* a request that has not arrived
NewRequest ==
    [pc |-> "idle", query |-> "", was_built |-> FALSE, initialized |-> FALSE,
     touched |-> FALSE, status |-> 0, response |-> <<>>, raised |-> NoException,
     handler |-> "none"]

\* the request ends with this answer
Answered(request, exc, returned) ==
    LET answer == ChatResponse(exc, returned)
    IN  [request EXCEPT !.pc = "done", !.status = answer.status,
                        !.response = answer.response, !.raised = exc,
                        !.handler = answer.handler]

RequestIds == 1 .. MaxRequests

InitApi ==
    /\ rag_system = <<>>
    /\ \E credentials \in BOOLEAN :
         startup = [pc |-> "start", credentials |-> credentials, raised |-> NoException]
    /\ requests = [r \in RequestIds |-> NewRequest]
    /\ health = [status |-> 0]
    /\ CleanIdle
    /\ BatchIdle
    /\ ChunkIdle
    /\ PipelineIdle
    /\ ChunkBatchIdle
    /\ DbIdle
    /\ ConfigIdle
    /\ RagIdle

ApiFrame ==
    UNCHANGED <<cleanVars, batchVars, chunkVars, pipelineVars, chunkBatchVars, dbVars,
                configVars, ragVars>>

\* startup_event (lines 44-54) up to the suspension of initialize: line 50
\* builds the RAGChain and assigns the global, unless the constructor raises
\* (the embedding model does not load); line 51 begins initialize
StartupEvent ==
    /\ startup.pc = "start"
    /\ \E constructed \in BOOLEAN :
         IF ~ constructed
         THEN /\ rag_system' = rag_system
              /\ startup' = [startup EXCEPT !.pc = "done",
                                            !.raised = "EmbeddingException"]
         ELSE LET begun == InitializeUntilListing(NewRAGChain, startup.credentials)
              IN  /\ rag_system' = <<begun.rag>>
                  /\ startup' = [startup EXCEPT
                                    !.pc = IF begun.raised = NoException THEN "listing"
                                           ELSE "done",
                                    !.raised = begun.raised]
    /\ UNCHANGED <<requests, health>>
    /\ ApiFrame

\* startup_event resumed: the rest of initialize, then lines 52-54
StartupInitialized ==
    /\ startup.pc = "listing"
    /\ \E outcome \in ResumeOutcomes :
         LET done == RAGChainInitialize(rag_system[1], outcome)
         IN  /\ rag_system' = <<done.rag>>
             /\ startup' = [startup EXCEPT !.pc = "done", !.raised = done.raised]
    /\ UNCHANGED <<requests, health>>
    /\ ApiFrame

\* chat_endpoint (lines 70-78) up to the first suspension of
\* generate_response (rag_chain.py lines 56-61)
Chat(r) ==
    /\ startup.pc = "done"
    /\ requests[r].pc = "idle"
    /\ \E query \in Queries :
         LET arrived == [requests[r] EXCEPT !.query = query]
         IN  IF rag_system = <<>>
             THEN /\ rag_system' = rag_system
                  /\ requests' = [requests EXCEPT
                                     ![r] = [arrived EXCEPT !.pc = "done", !.status = 503]]
             ELSE IF rag_system[1].rag_chain
             THEN /\ rag_system' = rag_system
                  /\ requests' = [requests EXCEPT
                                     ![r] = [arrived EXCEPT !.pc = "invoking",
                                                            !.was_built = TRUE]]
             ELSE LET begun == InitializeUntilListing(rag_system[1], startup.credentials)
                      entered == [arrived EXCEPT !.touched = begun.rag # rag_system[1]]
                  IN  /\ rag_system' = <<begun.rag>>
                      /\ requests' = [requests EXCEPT
                                         ![r] = IF begun.raised = NoException
                                                THEN [entered EXCEPT !.pc = "listing"]
                                                ELSE Answered(entered, begun.raised, <<>>)]
    /\ UNCHANGED <<startup, health>>
    /\ ApiFrame

\* the first-use initialize of a request resumed (rag_chain.py line 57), then
\* the chain is invoked (line 61)
ChatInitialized(r) ==
    /\ requests[r].pc = "listing"
    /\ \E outcome \in ResumeOutcomes :
         LET done == RAGChainInitialize(rag_system[1], outcome)
             resumed == [requests[r] EXCEPT
                           !.touched = requests[r].touched \/ done.rag # rag_system[1]]
         IN  /\ rag_system' = <<done.rag>>
             /\ requests' = [requests EXCEPT
                                ![r] = IF done.raised = NoException
                                       THEN [resumed EXCEPT !.pc = "invoking",
                                                            !.initialized = TRUE]
                                       ELSE Answered(resumed, done.raised, <<>>)]
    /\ UNCHANGED <<startup, health>>
    /\ ApiFrame

\* the chain answers or raises (rag_chain.py lines 61-75) and chat_endpoint
\* responds (api_server.py lines 79-89)
ChatAnswered(r) ==
    /\ requests[r].pc = "invoking"
    /\ \E retrieval \in RetrievalOutcomes, model \in ModelOutcomes,
          completion \in Completions :
         LET done == GenerateResponse(rag_system[1], "ok", retrieval, model, completion)
             resumed == [requests[r] EXCEPT
                           !.touched = requests[r].touched \/ done.rag # rag_system[1]]
         IN  /\ rag_system' = <<done.rag>>
             /\ requests' = [requests EXCEPT
                                ![r] = Answered(resumed, done.raised, done.returned)]
    /\ UNCHANGED <<startup, health>>
    /\ ApiFrame

\* health_check (lines 91-96)
HealthCheck ==
    /\ startup.pc = "done"
    /\ health' = [status |-> IF rag_system # <<>> THEN 200 ELSE 503]
    /\ UNCHANGED <<rag_system, startup, requests>>
    /\ ApiFrame

NextApi ==
    \/ StartupEvent
    \/ StartupInitialized
    \/ \E r \in RequestIds : Chat(r)
    \/ \E r \in RequestIds : ChatInitialized(r)
    \/ \E r \in RequestIds : ChatAnswered(r)
    \/ HealthCheck

SpecApi == InitApi /\ [][NextApi]_vars

(***************************************************************************)
(* C1: a per-item failure (the page cleans to no content region or to      *)
(* empty text, or its chunking fails) drops only that page: the loop goes  *)
(* on over every other fetched page, whose chunks reach the upsert, and    *)
(* the run is not ended by the failure.                                    *)
(***************************************************************************)
ChunksOfPage(docs, k) ==
    {i \in 1 .. Len(docs) : docs[i].metadata.url = scraped_results_list[k].url}

C1_ItemFailureDropsOnlyThatPage ==
    (pc = "done" /\ failed_items # {}) =>
        /\ next_item > Len(scraped_results_list)
        /\ \A k \in (1 .. Len(scraped_results_list)) \ failed_items :
              ChunksOfPage(all_documents_for_db, k) # {}
        /\ raised = NoException =>
              \A k \in (1 .. Len(scraped_results_list)) \ failed_items :
                 ChunksOfPage(index_records, k) # {}
        /\ raised \in {NoException, "VectorDBException"}

(***************************************************************************)
(* C2: whichever fetches succeed and in whichever order they end, when at  *)
(* least one succeeded scrape_all returns, without raising, one entry per  *)
(* successful URL and none for a failed one, each pairing the URL with the *)
(* HTML fetched from it, in configured URL order.                          *)
(***************************************************************************)
GatherReturned == pc \in {"process", "done"} /\ tasks # <<>>

FetchSucceeded(i) == tasks[i].returned = "content" /\ tasks[i].content # <<>>

Succeeded == {i \in UrlIds : FetchSucceeded(i)}

C2_ScrapeAllResult ==
    (GatherReturned /\ Succeeded # {}) =>
        /\ Len(scraped_results_list) = Cardinality(Succeeded)
        /\ \A i \in Succeeded :
              scraped_results_list[Cardinality({j \in Succeeded : j <= i})] =
                 [url |-> urls[i], content |-> tasks[i].content]

\* the second URL's fetch ended first, with content; the first URL's failed
C2_Witness ==
    /\ GatherReturned
    /\ completion_order = <<2, 1>>
    /\ Succeeded = {2}
    /\ Len(scraped_results_list) = 1
    /\ scraped_results_list[1].url = urls[2]

(***************************************************************************)
(* C3: when every configured URL fails to fetch, scrape_all raises a       *)
(* ScrapingException and the pipeline's handler for a scraping failure     *)
(* ends the run, with nothing cleaned, chunked or upserted.                *)
(***************************************************************************)
C3_ScrapingFailedHandled ==
    (GatherReturned /\ Succeeded = {}) =>
        /\ IsInstance(raised, "ScrapingException")
        /\ handled_by = "except ScrapingException (line 60)"
        /\ scraped_results_list = <<>>
        /\ all_documents_for_db = <<>>
        /\ index_records = <<>>

(***************************************************************************)
(* C4: concurrent fetches are isolated: a step of one fetch (its failure   *)
(* included) changes nothing of a sibling fetch: neither where it stands,  *)
(* nor what it met, nor what it returns.                                   *)
(***************************************************************************)
C4_FetchesIsolated ==
    [][\A i \in UrlIds :
          (pc = "gather" /\ pc' = "gather" /\ tasks'[i] # tasks[i]) =>
              \A j \in UrlIds \ {i} : tasks'[j] = tasks[j]]_vars

\* one fetch failed first; its sibling ended after it, with its content
C4_Witness ==
    /\ pc = "gather"
    /\ \E i, j \in UrlIds :
          /\ completion_order = <<i, j>>
          /\ tasks[i].error # "none"
          /\ tasks[i].returned = "None"
          /\ tasks[j].returned = "content"
          /\ tasks[j].content # <<>>

(***************************************************************************)
(* C5 as claimed: a URL is dropped from the fetch result exactly when its  *)
(* navigation errors, its response status is not 2xx, or an exception      *)
(* occurs (empty HTML aside).                                              *)
(***************************************************************************)
Kept(i) == \E k \in 1 .. Len(scraped_results_list) : scraped_results_list[k].url = urls[i]

ScrapeAllReturned == GatherReturned /\ scraped_results_list # <<>>

C5_DroppedExactlyOnNon2xx ==
    ScrapeAllReturned =>
        \A i \in UrlIds :
            ~ Kept(i) <=>
                \/ tasks[i].error # "none"
                \/ tasks[i].response = "received" /\ tasks[i].status \notin 200 .. 299
                \/ tasks[i].returned = "content" /\ tasks[i].content = <<>>

(***************************************************************************)
(* C5 as amended: a URL is dropped from the fetch result exactly when an   *)
(* exception occurs in its fetch (navigation included), its response       *)
(* status is other than 200, or its rendered HTML is empty.                *)
(***************************************************************************)
C5_DroppedUnlessStatus200 ==
    ScrapeAllReturned =>
        \A i \in UrlIds :
            ~ Kept(i) <=>
                \/ tasks[i].error # "none"
                \/ tasks[i].response = "received" /\ tasks[i].status # 200
                \/ tasks[i].returned = "content" /\ tasks[i].content = <<>>

\* one URL answered 203 and was dropped, the other answered 200 and was kept
C5_Witness ==
    /\ ScrapeAllReturned
    /\ \E i, j \in UrlIds :
          /\ tasks[i].status = 203 /\ tasks[i].error = "none" /\ ~ Kept(i)
          /\ tasks[j].status = 200 /\ Kept(j)

(***************************************************************************)
(* C6: the cleaner reads exactly one region, chosen by fixed priority      *)
(* among the elements left after the comments and the unwanted tags are    *)
(* removed: the first main, else the first article, else the element with  *)
(* id 'content', else the body.  The output is the normalised text of that *)
(* region, and no character of a text outside the region appears in it     *)
(* unless the region holds it too.                                         *)
(***************************************************************************)
FirstOf(S) == IF S = {} THEN 0 ELSE Min(S)

ElementsLeft(doc) ==
    {i \in 1 .. Len(doc) :
        /\ doc[i].kind = "tag"
        /\ \A r \in 1 .. Len(doc) :
              InSubtree(doc, i, r) => doc[r].tag \notin unwanted_tags}

PriorityRegion(doc) ==
    LET left == ElementsLeft(doc)
        mains == {i \in left : doc[i].tag = "main"}
        articles == {i \in left : doc[i].tag = "article"}
        contents == {i \in left : doc[i].id = "content"}
        bodies == {i \in left : doc[i].tag = "body"}
    IN  IF mains # {} THEN FirstOf(mains)
        ELSE IF articles # {} THEN FirstOf(articles)
        ELSE IF contents # {} THEN FirstOf(contents)
        ELSE FirstOf(bodies)

Letters(text) == {text[k] : k \in 1 .. Len(text)} \ Whitespace

LettersInside(doc, region) ==
    UNION {Letters(doc[i].text) :
             i \in {j \in 1 .. Len(doc) : doc[j].kind = "text" /\ InSubtree(doc, j, region)}}

\* the texts of the region as they stand in the document, comments and the
\* content of unwanted elements aside
RECURSIVE RawStrings(_, _, _)
RawStrings(doc, region, i) ==
    IF i > Len(doc) THEN <<>>
    ELSE (IF /\ doc[i].kind = "text"
             /\ InSubtree(doc, i, region)
             /\ \A r \in 1 .. Len(doc) :
                   InSubtree(doc, i, r) => doc[r].tag \notin unwanted_tags
          THEN <<doc[i].text>> ELSE <<>>) \o RawStrings(doc, region, i + 1)

C6_RegionByPriority ==
    clean_pc # "input" =>
        /\ main_content = PriorityRegion(html_content)
        /\ main_content = 0 => cleaned_text = <<>>
        /\ main_content # 0 =>
              /\ cleaned_text =
                    Strip(SubWhitespace(JoinSpace(RawStrings(html_content, main_content, 1))))
              /\ Letters(cleaned_text) \subseteq LettersInside(html_content, main_content)

\* a main is chosen while a lower-priority candidate outside it holds text,
\* none of which reaches the output
C6_Witness ==
    /\ clean_pc = "cleaned"
    /\ main_content # 0
    /\ html_content[main_content].tag = "main"
    /\ \E i, j \in 1 .. Len(html_content) :
          /\ html_content[i].tag \in {"article", "body"}
          /\ ~ InSubtree(html_content, i, main_content)
          /\ html_content[j].kind = "text"
          /\ html_content[j].parent = i
          /\ Letters(html_content[j].text) # {}
          /\ Letters(html_content[j].text) \cap Letters(cleaned_text) = {}

(***************************************************************************)
(* C7: cleaning is idempotent: a non-empty cleaned text fed back through   *)
(* the cleaner comes out unchanged.                                        *)
(***************************************************************************)
C7_CleaningIdempotent ==
    (clean_pc = "recleaned" /\ cleaned_text # <<>>) => recleaned_text = cleaned_text

(***************************************************************************)
(* C8: clean_scraped_data drops a page with no content region or empty     *)
(* text, returns the surviving pages in input order, each with its own url *)
(* and non-empty text, and raises a CleaningException exactly when every   *)
(* page of a non-empty input was dropped.                                  *)
(***************************************************************************)
Survives(item) ==
    /\ ~ ParserRaises(item.content)
    /\ CleanHtmlContent(item.content) # <<>>

RECURSIVE SurvivorsOf(_)
SurvivorsOf(items) ==
    IF items = <<>> THEN <<>>
    ELSE (IF Survives(Head(items))
          THEN <<[url |-> Head(items).url,
                  cleaned_text |-> CleanHtmlContent(Head(items).content)]>>
          ELSE <<>>) \o SurvivorsOf(Tail(items))

C8_CleaningFailedWhenAllDropped ==
    (batch_pc = "done" /\ batch_in # <<>>) =>
        /\ cleaned_results = SurvivorsOf(batch_in)
        /\ IsInstance(clean_raised, "CleaningException") <=> SurvivorsOf(batch_in) = <<>>
        /\ clean_raised # NoException => IsInstance(clean_raised, "CleaningException")

(***************************************************************************)
(* C11: every chunk chunk_cleaned_data returns, and every document an      *)
(* ingestion run collects or hands to the upsert, carries metadata whose   *)
(* source and url are both the URL of the page whose text the chunk is a   *)
(* piece of; none carries no URL.                                          *)
(***************************************************************************)
IsPieceOf(piece, text) ==
    /\ piece # <<>>
    /\ \E a \in 1 .. Len(text) :
          /\ a + Len(piece) - 1 <= Len(text)
          /\ SubSeq(text, a, a + Len(piece) - 1) = piece

\* doc names, as source and as url, a page of pages whose text holds its content
CarriesItsPage(doc, pages) ==
    /\ doc.metadata.url # ""
    /\ doc.metadata.source = doc.metadata.url
    /\ \E k \in 1 .. Len(pages) :
          /\ pages[k].url = doc.metadata.url
          /\ IsPieceOf(doc.page_content, pages[k].cleaned_text)

ScrapedPagesCleaned ==
    [k \in 1 .. Len(scraped_results_list) |->
        [url |-> scraped_results_list[k].url,
         cleaned_text |-> IF ParserRaises(scraped_results_list[k].content) THEN <<>>
                          ELSE CleanHtmlContent(scraped_results_list[k].content)]]

C11_ChunksCarryTheirUrl ==
    /\ \A i \in 1 .. Len(all_chunks) : CarriesItsPage(all_chunks[i], cleaned_data)
    /\ \A i \in 1 .. Len(all_documents_for_db) :
          CarriesItsPage(all_documents_for_db[i], ScrapedPagesCleaned)
    /\ \A i \in 1 .. Len(index_records) :
          CarriesItsPage(index_records[i], ScrapedPagesCleaned)

\* a run upserted chunks of both pages, whose texts differ
C11_Witness ==
    /\ pc = "done"
    /\ \E a, b \in 1 .. Len(index_records) :
          /\ index_records[a].metadata.url = urls[1]
          /\ index_records[b].metadata.url = urls[2]
          /\ ~ IsPieceOf(index_records[a].page_content, ScrapedPagesCleaned[2].cleaned_text)

(***************************************************************************)
(* C12: chunk_cleaned_data skips an item with no text (chunk_text gives no *)
(* chunk for it and does not raise), returns the chunks of the other items *)
(* in input order, and raises a ChunkingException exactly when a non-empty *)
(* batch yields no chunk at all.                                           *)
(***************************************************************************)
RECURSIVE ChunksOfItems(_, _)
ChunksOfItems(items, dropped) ==
    IF items = <<>> THEN <<>>
    ELSE ChunksOfItems(SubSeq(items, 1, Len(items) - 1), dropped)
            \o (IF Len(items) \in dropped \/ items[Len(items)].url = "" THEN <<>>
                ELSE ChunkText(items[Len(items)].cleaned_text,
                               [source |-> items[Len(items)].url,
                                url |-> items[Len(items)].url],
                               CHUNK_SIZE, CHUNK_OVERLAP))

C12_ChunkingFailedWhenNoChunks ==
    (chunk_batch_pc = "done" /\ cleaned_data # <<>>) =>
        /\ all_chunks = ChunksOfItems(cleaned_data, splitter_failures)
        /\ IsInstance(chunk_batch_raised, "ChunkingException")
              <=> ChunksOfItems(cleaned_data, splitter_failures) = <<>>
        /\ chunk_batch_raised # NoException
              => IsInstance(chunk_batch_raised, "ChunkingException")

(***************************************************************************)
(* C9: with chunk_overlap < chunk_size, every chunk chunk_text returns has *)
(* at most chunk_size characters.                                          *)
(***************************************************************************)
C9_ChunksWithinSize ==
    chunk_pc = "returned" =>
        \A k \in 1 .. Len(documents) : Len(documents[k].page_content) <= chunk_size

\* a text longer than chunk_size, cut into several chunks, one of them full
C9_Witness ==
    /\ chunk_pc = "returned"
    /\ Len(text_content) > chunk_size
    /\ Len(documents) >= 2
    /\ \E k \in 1 .. Len(documents) : Len(documents[k].page_content) = chunk_size
    /\ \E k \in 1 .. Len(documents) :
          \E i \in 1 .. Len(documents[k].page_content) :
             documents[k].page_content[i] \in Whitespace

(***************************************************************************)
(* C10 as claimed: every pair of consecutive chunks but the one ending in  *)
(* the final chunk shares exactly chunk_overlap characters: the last       *)
(* chunk_overlap characters of the earlier chunk are the first             *)
(* chunk_overlap characters of the later one.                              *)
(***************************************************************************)
LastChars(s, n) == SubSeq(s, Len(s) - n + 1, Len(s))
FirstChars(s, n) == SubSeq(s, 1, n)

Positions(span) == {span[i] : i \in 1 .. Len(span)}

Shared(k) == Positions(spans[k]) \cap Positions(spans[k + 1])

Answers(client, call) ==
    {client.calls[i].answer : i \in {j \in 1 .. Len(client.calls) : client.calls[j].call = call}}

Completed(client, op) == client.op = op /\ client.pc = "idle"

C13_IdempotentCreate ==
    /\ CountIndex(remote_indexes, PINECONE_INDEX_NAME) <= 1
    /\ \A c \in DOMAIN clients :
          LET client == clients[c]
          IN  /\ (client.pc = "create" \/ Answers(client, "create_index") # {})
                    => client.index_name \notin client.listing
              /\ Completed(client, "initialize") =>
                    /\ client.raised \in {NoException, "VectorDBException"}
                    /\ client.raised = NoException =>
                          /\ client.index = client.index_name
                          /\ CountIndex(remote_indexes, client.index_name) = 1
                    /\ "already_exists" \in Answers(client, "create_index")
                          => \/ client.raised = NoException
                             \/ "failed" \in Answers(client, "Index")
                    /\ "failed" \in Answers(client, "create_index")
                          => client.raised = "VectorDBException"

(***************************************************************************)
(* C14: on a client none of whose initialize calls has succeeded (one that *)
(* failed included), upsert_documents and get_retriever raise a            *)
(* VectorDBException and make no remote call: nothing is upserted and no   *)
(* vector store object is built.                                           *)
(***************************************************************************)
C14_NotReadyBeforeInitialize ==
    /\ \A c \in DOMAIN clients :
          (~ clients[c].initialized
             /\ clients[c].op \in {"upsert_documents", "get_retriever"}) =>
                /\ clients[c].raised = "VectorDBException"
                /\ clients[c].calls = <<>>
                /\ ~ clients[c].vectorstore
    /\ (clients # <<>> /\ ~ clients[IngestionClient].initialized) => remote_records = <<>>

\* an initialize of the client has failed after its first lines, and the
\* upsert of a document that followed was refused
C14_Witness ==
    /\ clients # <<>>
    /\ clients[IngestionClient].pinecone_client
    /\ ~ clients[IngestionClient].initialized
    /\ clients[IngestionClient].op = "upsert_documents"
    /\ clients[IngestionClient].documents # <<>>
    /\ clients[IngestionClient].raised = "VectorDBException"

(***************************************************************************)
(* C15: a client built with no API key or no environment (None or empty)   *)
(* fails every initialize with a VectorDBException at once: no SDK client  *)
(* is built, no remote call is made, no step of initialize follows, and    *)
(* the client never holds an index handle.                                 *)
(***************************************************************************)
C15_MissingCredentialsFatal ==
    \A c \in DOMAIN clients :
        (clients[c].api_key \in {"None", ""} \/ clients[c].environment \in {"None", ""}) =>
            /\ clients[c].pc = "idle"
            /\ ~ clients[c].pinecone_client
            /\ clients[c].index = "None"
            /\ ~ clients[c].initialized
            /\ clients[c].calls = <<>>
            /\ clients[c].op = "initialize" => clients[c].raised = "VectorDBException"

\* the pinecone provider with an API key and no environment: initialize raised
C15_Witness ==
    \E c \in DOMAIN clients :
        /\ clients[c].provider = "pinecone"
        /\ clients[c].api_key = "key"
        /\ clients[c].environment = "None"
        /\ clients[c].op = "initialize"
        /\ clients[c].raised = "VectorDBException"

(***************************************************************************)
(* C17: no step replaces or removes a record of the index, and an upsert   *)
(* of n documents that succeeds adds n records with ids of their own       *)
(* after the existing ones, holding the documents' text and metadata in    *)
(* order: upserting the same content again adds copies.                    *)
(***************************************************************************)
C17_UpsertOnlyAdds ==
    [][/\ Len(remote_records') >= Len(remote_records)
       /\ SubSeq(remote_records', 1, Len(remote_records)) = remote_records
       /\ \A c \in DOMAIN clients :
             (/\ clients'[c].op = "upsert_documents"
              /\ clients'[c].raised = NoException
              /\ clients'[c] # clients[c] \/ remote_records' # remote_records) =>
                LET docs == clients'[c].documents
                    old == Len(remote_records)
                IN  /\ Len(remote_records') = old + Len(docs)
                    /\ \A j \in 1 .. Len(docs) :
                          /\ remote_records'[old + j].page_content = docs[j].page_content
                          /\ remote_records'[old + j].metadata = docs[j].metadata
                          /\ \A i \in 1 .. old + Len(docs) :
                                i # old + j => remote_records'[i].id # remote_records'[old + j].id
      ]_vars

\* the same chunk was upserted twice, and the index holds it twice
C17_Witness ==
    /\ clients # <<>>
    /\ Completed(clients[IngestionClient], "upsert_documents")
    /\ clients[IngestionClient].raised = NoException
    /\ Len(clients[IngestionClient].documents) = 1
    /\ Len(remote_records) >= 2
    /\ remote_records[Len(remote_records)].page_content
          = clients[IngestionClient].documents[1].page_content
    /\ remote_records[Len(remote_records) - 1].page_content
          = clients[IngestionClient].documents[1].page_content
    /\ remote_records[Len(remote_records)].id # remote_records[Len(remote_records) - 1].id

(***************************************************************************)
(* C18: get_relevant_documents(query, top_k) returns at most top_k         *)
(* documents, whatever top_k the caller passes.                            *)
(***************************************************************************)
C18_AtMostTopK ==
    \A c \in DOMAIN clients :
        (clients[c].op = "get_relevant_documents" /\ clients[c].raised = NoException)
            => Len(clients[c].returned) <= clients[c].top_k

(***************************************************************************)
(* C16: not in debug mode, importing config.py raises exactly when no LLM  *)
(* API key is set, or the provider is pinecone and its API key or its      *)
(* environment is not set; with the LLM key, the Pinecone API key and the  *)
(* Pinecone environment all set it loads without error.                    *)
(***************************************************************************)
Unset(value) == value \in {"None", ""}

C16_ConfigFailsExactlyOnMissingCredentials ==
    (config_pc = "loaded" /\ environ["DEBUG"] \notin {"true", "True"}) =>
        (config_raised # NoException <=>
            \/ Unset(environ["OPENAI_API_KEY"]) /\ Unset(environ["HUGGINGFACE_API_KEY"])
            \/ /\ environ["VECTOR_DB_PROVIDER"] \in {"None", "Pinecone"}
               /\ Unset(environ["PINECONE_API_KEY"]) \/ Unset(environ["PINECONE_ENVIRONMENT"]))

(***************************************************************************)
(* C19: when the model answers, generate_response does not raise; it       *)
(* returns the fixed fallback message exactly when the completion is empty *)
(* or made of whitespace only, and the completion unchanged otherwise; it  *)
(* never returns an empty or whitespace-only string.                       *)
(***************************************************************************)
WhitespaceOnly(response) == \A i \in 1 .. Len(response) : response[i] \in Whitespace

C19_BlankCompletionGivesFallback ==
    (generated.op = "generate_response" /\ generated.model = "ok") =>
        /\ generated.raised = NoException
        /\ WhitespaceOnly(generated.completion) => generated.returned = FallbackMessage
        /\ ~ WhitespaceOnly(generated.completion)
              => generated.returned = generated.completion
        /\ ~ WhitespaceOnly(generated.returned)

C19_Witness ==
    /\ generated.op = "generate_response"
    /\ generated.model = "ok"
    /\ generated.completion = <<"\n", " ">>
    /\ generated.returned = FallbackMessage

(***************************************************************************)
(* C20: whatever generate_response raises while it handles a query, a      *)
(* failure of the first-use initialization included, is a                  *)
(* GenerationException that carries the original exception.                *)
(***************************************************************************)
C20_OnlyGenerationExceptionEscapes ==
    (generated.op = "generate_response" /\ generated.raised # NoException) =>
        /\ generated.raised = "GenerationException"
        /\ generated.cause # NoException

C22_ReadyOnlyAfterSuccessfulStartup ==
    /\ health.status = 200 => startup.raised = NoException
    /\ (startup.pc = "done" /\ startup.raised # NoException) =>
          \A r \in RequestIds :
              /\ requests[r].pc \in {"idle", "done"}
              /\ requests[r].pc = "done" => requests[r].status = 503

(***************************************************************************)
(* C23: at most one execution of initialize is in progress at any time,    *)
(* initialize completes at most once, and a request invokes the chain only *)
(* when the chain is built.                                                *)
(***************************************************************************)
InitializeInProgress ==
    Cardinality({r \in RequestIds : requests[r].pc = "listing"})
        + (IF startup.pc = "listing" THEN 1 ELSE 0)

InitializeCompleted ==
    Cardinality({r \in RequestIds : requests[r].initialized})
        + (IF startup.pc = "done" /\ startup.raised = NoException /\ rag_system # <<>>
           THEN 1 ELSE 0)

C23_InitializeNeverReentered ==
    /\ InitializeInProgress <= 1
    /\ InitializeCompleted <= 1
    /\ \A r \in RequestIds :
          requests[r].pc = "invoking" => rag_system[1].rag_chain

C26_ClosedOnceOnEveryExit ==
    /\ pc = "done" =>
          /\ close_calls = 1
          /\ raised # NoException =>
                handled_by \in {"except ScrapingException (line 60)",
                                "except pipeline failure (line 111)",
                                "except Exception (line 114)"}
    /\ pc # "done" => close_calls = 0

C26_Witness ==
    /\ pc = "done"
    /\ raised = "DataProcessingException"
    /\ handled_by = "except Exception (line 114)"
    /\ close_calls = 1

(***************************************************************************)
(* C27: whatever urls argument the pipeline is given, its scraper holds    *)
(* the configured list, one fetch is started for each URL of that list and *)
(* for nothing else, and every scraped item carries a configured URL.      *)
(***************************************************************************)
FetchedUrls == {scraper_urls[i] : i \in DOMAIN tasks}

ConfiguredUrls == {urls[i] : i \in UrlIds}

C27_FetchesTheConfiguredUrls ==
    /\ scraper_urls = urls
    /\ FetchedUrls \subseteq ConfiguredUrls
    /\ pc \in {"gather", "process"} => FetchedUrls = ConfiguredUrls
    /\ \A k \in DOMAIN scraped_results_list :
          scraped_results_list[k].url \in ConfiguredUrls

C27_Witness ==
    /\ urls_argument = <<"http://example.com/test", "https: // www.changiairport.com">>
    /\ pc = "process"
    /\ Len(scraped_results_list) = Len(urls)
    /\ FetchedUrls = ConfiguredUrls

=============================================================================
